---- MODULE Spec2Model ----
(***************************************************************************)
(* The render pass of the printer: createPdfKitDocument hands the laid-out *)
(* pages to renderPages, which walks pages and items and issues drawing    *)
(* calls to the pdfKit document (the Sink).                                *)
(*                                                                         *)
(* Conventions of the model                                                *)
(*  - a JavaScript object is a record holding exactly the fields that are  *)
(*    present; a missing field is `undefined` (Has(o, f) is false);        *)
(*  - numbers are integers counting hundredths (1 pt = 100, opacity 1 =    *)
(*    100), so that halves and the 0.75 / 0.35 factors are exact;          *)
(*  - a string or an array of strings is a sequence of strings: a colour   *)
(*    'red' is <<"red">>, a pattern marker ['stripe45d', 'blue'] is        *)
(*    <<"stripe45d", "blue">>, a text is the sequence of its characters;   *)
(*  - a Sink call is [op, n, s, o]: the method, its numeric arguments, its *)
(*    string arguments, in the order the code passes them, and its options *)
(*    object.                                                              *)
(***************************************************************************)
EXTENDS Integers, Sequences, FiniteSets, TLC

VARIABLES
    layoutPages,      \* builder.layoutDocument(...): the laid-out pages
    maxPagesNumber,   \* docDefinition.maxPagesNumber: <<>> or <<num, den>>
    patternNames,     \* keys of docDefinition.patterns
    progressSupplied, \* options.progressCallback is given
    pages,            \* the page list renderPages walks (mutated in place)
    size,             \* pdfKitDoc.options.size = <<width, height>>
    trace,            \* the Sink calls issued so far, each tagged with its origin
    progress,         \* the values the progress callback received, <<k, N>> = k/N
    totalItems,       \* renderPages: totalItems
    renderedItems,    \* renderPages: renderedItems
    i,                \* renderPages: page index (0-based, as in the code)
    ii,               \* renderPages: item index (0-based, as in the code)
    pc,               \* position of createPdfKitDocument / renderPages
    firstTrace        \* the Sink calls of the first pass once the pages are rendered again

vars == <<layoutPages, maxPagesNumber, patternNames, progressSupplied, pages, size,
          trace, progress, totalItems, renderedItems, i, ii, pc, firstTrace>>

----------------------------------------------------------------------------
(* JavaScript values *)

Has(o, f) == f \in DOMAIN o

\* o.f when present, else d  (the value `o.f || d` for a field that is never 0 or '')
GetOr(o, f, d) == IF Has(o, f) THEN o[f] ELSE d

\* truthiness of a numeric field: present and not 0
TruthyNum(o, f) == Has(o, f) /\ o[f] # 0

\* truthiness of a string or colour field: present and not the empty string
TruthyStr(o, f) == Has(o, f) /\ o[f] # <<>>

\* helpers.isNumber(o.f)
isNumber(o, f) == Has(o, f)

\* o.f || d for a numeric field
NumOr(o, f, d) == IF TruthyNum(o, f) THEN o[f] ELSE d

\* o.f || d for a string field
StrOr(o, f, d) == IF TruthyStr(o, f) THEN o[f] ELSE d

\* o with field f set to v (assignment o.f = v)
SetField(o, f, v) == [g \in (DOMAIN o) \cup {f} |-> IF g = f THEN v ELSE o[g]]

\* an empty options object
NoOpt == [k \in {} |-> TRUE]

\* a Sink call with an options object
CallO(op, n, s, o) == [op |-> op, n |-> n, s |-> s, o |-> o]

\* a Sink call without one
Call(op, n, s) == CallO(op, n, s, NoOpt)

\* n / 2 (the inputs of the model keep n even, so the half is exact)
Half(n) == n \div 2

\* String.prototype.startsWith('x-') on the type tags of the model
XTypes == {"x-saveContext", "x-restoreContext", "x-rotateContext", "x-translateContext",
           "x-scaleContext", "x-lineStyle", "x-strokeColor", "x-fillColor", "x-strokePath",
           "x-fillPath", "x-fillAndStrokePath", "x-moveTo", "x-lineTo", "x-line", "x-rect",
           "x-ellipse", "x-quadraticCurve", "x-bezierCurve", "x-closePath", "x-clipToRect",
           "x-unknown"}

startsWithX(type) == type \in XTypes

----------------------------------------------------------------------------
(* helpers.js: pattern markers *)

\* helpers.isPattern: an array of two entries [patternName, colour]
isPattern(color) == Len(color) = 2

\* helpers.getPattern: the marker replaced by the pattern registered under its
\* name (the Sink's handle, written "#pattern" with the name) together with the
\* marker's colour; an unregistered name gives undefined in place of the handle
getPattern(color, patterns) ==
    IF color[1] \in patterns THEN <<"#pattern", color[1], color[2]>>
                             ELSE <<"#undefined", color[2]>>

\* createPatterns: one Sink pattern per key of docDefinition.patterns
createPatterns(patternDefinitions) == patternDefinitions

----------------------------------------------------------------------------
(* Extended vector instructions *)

\* (angle * -1).toFixed(2): a number of hundredths negated is already the
\* two-decimal value
toFixed2Neg(angle) == 0 - angle

xVecRotateContext(vector) ==
    IF Has(vector, "origin")
    THEN <<Call("rotate", <<toFixed2Neg(vector.angle), vector.origin.x, vector.origin.y>>, <<>>)>>
    ELSE <<Call("rotate", <<toFixed2Neg(vector.angle)>>, <<>>)>>

xVecTranslateContext(vector) == <<Call("translate", <<vector.x, vector.y>>, <<>>)>>

xVecScaleContext(vector) ==
    IF Has(vector, "origin")
    THEN <<Call("scale", <<vector.scale, vector.origin.x, vector.origin.y>>, <<>>)>>
    ELSE <<Call("scale", <<vector.scale>>, <<>>)>>

\* a slip in xVecLineStyle: join and cap reset as the standard vectors do
xVecLineStyleResettingJoinCap(vector) ==
    <<Call("lineWidth", <<NumOr(vector, "lineWidth", 100)>>, <<>>)>>
    \o (IF Has(vector, "dash")
        THEN <<Call("dash", <<vector.dash.length, NumOr(vector.dash, "space", vector.dash.length)>>, <<>>)>>
        ELSE <<Call("undash", <<>>, <<>>)>>)
    \o <<Call("lineJoin", <<>>, <<<<"miter">>>>), Call("lineCap", <<>>, <<<<"butt">>>>)>>

xVecLineStyle(vector) ==
    <<Call("lineWidth", <<NumOr(vector, "lineWidth", 100)>>, <<>>)>>
    \o (IF Has(vector, "dash")
        THEN <<Call("dash", <<vector.dash.length, NumOr(vector.dash, "space", vector.dash.length)>>, <<>>)>>
        ELSE <<Call("undash", <<>>, <<>>)>>)

xVecStrokeColor(vector) ==
    IF TruthyNum(vector, "strokeOpacity")
    THEN <<Call("strokeColor", <<vector.strokeOpacity>>, <<GetOr(vector, "strokeColor", <<>>)>>)>>
    ELSE <<Call("strokeColor", <<>>, <<GetOr(vector, "strokeColor", <<>>)>>)>>

xVecFillColor(vector) ==
    IF TruthyNum(vector, "fillOpacity")
    THEN <<Call("fillColor", <<vector.fillOpacity>>, <<GetOr(vector, "fillColor", <<>>)>>)>>
    ELSE <<Call("fillColor", <<>>, <<GetOr(vector, "fillColor", <<>>)>>)>>

xVecStrokePath(vector) ==
    IF Has(vector, "strokeColor")
    THEN <<Call("stroke", <<>>, <<vector.strokeColor>>)>>
    ELSE <<Call("stroke", <<>>, <<>>)>>

xVecFillPath(vector) ==
    IF Has(vector, "fillColor")
    THEN <<Call("fill", <<>>, <<vector.fillColor>>)>>
    ELSE <<Call("fill", <<>>, <<>>)>>

xVecFillAndStrokePath(vector) ==
    IF Has(vector, "strokeColor") /\ Has(vector, "fillColor")
    THEN <<Call("fillAndStroke", <<>>, <<vector.fillColor, vector.strokeColor>>)>>
    ELSE <<Call("fillAndStroke", <<>>, <<>>)>>

xVecMoveTo(vector) == <<Call("moveTo", <<vector.x, vector.y>>, <<>>)>>

xVecLineTo(vector) == <<Call("lineTo", <<vector.x, vector.y>>, <<>>)>>

xVecLine(vector) ==
    <<Call("moveTo", <<vector.x1, vector.y1>>, <<>>), Call("lineTo", <<vector.x2, vector.y2>>, <<>>)>>

xVecRect(vector) == <<Call("rect", <<vector.x, vector.y, vector.width, vector.height>>, <<>>)>>

xVecElipse(vector) == <<Call("ellipse", <<vector.cx, vector.cy, vector.rx, vector.ry>>, <<>>)>>

xVecQuadraticCurve(vector) ==
    (IF Has(vector, "x1") /\ Has(vector, "y1")
     THEN <<Call("moveTo", <<vector.x1, vector.y1>>, <<>>)>> ELSE <<>>)
    \o <<Call("quadraticCurveTo", <<vector.cpx, vector.cpy, vector.x2, vector.y2>>, <<>>)>>

xVecBezierCurve(vector) ==
    (IF Has(vector, "x1") /\ Has(vector, "y1")
     THEN <<Call("moveTo", <<vector.x1, vector.y1>>, <<>>)>> ELSE <<>>)
    \o <<Call("bezierCurveTo",
              <<vector.cpx1, vector.cpy1, vector.cpx2, vector.cpy2, vector.x2, vector.y2>>, <<>>)>>

xVecClipToRect(vector) ==
    <<Call("rect", <<vector.x, vector.y, vector.width, vector.height>>, <<>>),
      Call("clip", <<>>, <<>>)>>

\* renderXVector: the switch over the extended type tags; an unlisted tag does nothing
renderXVector(vector) ==
    CASE vector.type = "x-saveContext" -> <<Call("save", <<>>, <<>>)>>
      [] vector.type = "x-restoreContext" -> <<Call("restore", <<>>, <<>>)>>
      [] vector.type = "x-rotateContext" -> xVecRotateContext(vector)
      [] vector.type = "x-translateContext" -> xVecTranslateContext(vector)
      [] vector.type = "x-scaleContext" -> xVecScaleContext(vector)
      [] vector.type = "x-lineStyle" -> xVecLineStyle(vector)
      [] vector.type = "x-strokeColor" -> xVecStrokeColor(vector)
      [] vector.type = "x-fillColor" -> xVecFillColor(vector)
      [] vector.type = "x-strokePath" -> xVecStrokePath(vector)
      [] vector.type = "x-fillPath" -> xVecFillPath(vector)
      [] vector.type = "x-fillAndStrokePath" -> xVecFillAndStrokePath(vector)
      [] vector.type = "x-moveTo" -> xVecMoveTo(vector)
      [] vector.type = "x-lineTo" -> xVecLineTo(vector)
      [] vector.type = "x-line" -> xVecLine(vector)
      [] vector.type = "x-rect" -> xVecRect(vector)
      [] vector.type = "x-ellipse" -> xVecElipse(vector)
      [] vector.type = "x-quadraticCurve" -> xVecQuadraticCurve(vector)
      [] vector.type = "x-bezierCurve" -> xVecBezierCurve(vector)
      [] vector.type = "x-closePath" -> <<Call("closePath", <<>>, <<>>)>>
      [] vector.type = "x-clipToRect" -> xVecClipToRect(vector)
      [] OTHER -> <<>>

----------------------------------------------------------------------------
(* Standard vectors *)

\* renderVector, lines 588-595: the style setters issued for every standard vector
VectorStyle(vector) ==
    <<Call("lineWidth", <<NumOr(vector, "lineWidth", 100)>>, <<>>)>>
    \o (IF Has(vector, "dash")
        THEN <<Call("dash", <<vector.dash.length,
                              NumOr(vector.dash, "space", vector.dash.length),
                              NumOr(vector.dash, "phase", 0)>>, <<>>)>>
        ELSE <<Call("undash", <<>>, <<>>)>>)
    \o <<Call("lineJoin", <<>>, <<StrOr(vector, "lineJoin", <<"miter">>)>>),
         Call("lineCap", <<>>, <<StrOr(vector, "lineCap", <<"butt">>)>>)>>

\* the lineTo calls of a polyline for points k..Len(points)
RECURSIVE PolylineLineTos(_, _)
PolylineLineTos(points, k) ==
    IF k > Len(points) THEN <<>>
    ELSE <<Call("lineTo", <<points[k].x, points[k].y>>, <<>>)>> \o PolylineLineTos(points, k + 1)

\* a slip in the polyline case: the closePath test moved out of the guard on
\* the number of points
PolylinePathClosingEmpty(vector) ==
    (IF Len(vector.points) = 0 THEN <<>>
     ELSE <<Call("moveTo", <<vector.points[1].x, vector.points[1].y>>, <<>>)>>
          \o PolylineLineTos(vector.points, 2))
    \o (IF GetOr(vector, "closePath", FALSE)
           \/ (Len(vector.points) > 1 /\ vector.points[1] = vector.points[Len(vector.points)])
        THEN <<Call("closePath", <<>>, <<>>)>> ELSE <<>>)

\* a slip in the polyline case: the path closed on the flag alone, coinciding
\* end points overlooked
PolylinePathClosingOnFlagOnly(vector) ==
    IF Len(vector.points) = 0 THEN <<>>
    ELSE <<Call("moveTo", <<vector.points[1].x, vector.points[1].y>>, <<>>)>>
         \o PolylineLineTos(vector.points, 2)
         \o (IF Len(vector.points) > 1 /\ GetOr(vector, "closePath", FALSE)
             THEN <<Call("closePath", <<>>, <<>>)>> ELSE <<>>)

\* renderVector, case 'polyline'
PolylinePath(vector) ==
    IF Len(vector.points) = 0 THEN <<>>
    ELSE LET p1 == vector.points[1]
             pn == vector.points[Len(vector.points)]
         IN <<Call("moveTo", <<p1.x, p1.y>>, <<>>)>>
            \o PolylineLineTos(vector.points, 2)
            \o (IF Len(vector.points) > 1
                   /\ (GetOr(vector, "closePath", FALSE) \/ (p1.x = pn.x /\ p1.y = pn.y))
                THEN <<Call("closePath", <<>>, <<>>)>> ELSE <<>>)

\* renderVector, the switch on vector.type: path construction, and the gradient
\* the ellipse and rect cases create
VectorPath(vector) ==
    CASE vector.type = "ellipse" ->
           <<Call("ellipse", <<vector.x, vector.y, vector.r1, vector.r2>>, <<>>)>>
           \o (IF Has(vector, "linearGradient")
               THEN <<Call("linearGradient",
                           <<vector.x - vector.r1, vector.y, vector.x + vector.r1, vector.y>>, <<>>)>>
               ELSE <<>>)
      [] vector.type = "rect" ->
           (IF TruthyNum(vector, "r")
            THEN <<Call("roundedRect", <<vector.x, vector.y, vector.w, vector.h, vector.r>>, <<>>)>>
            ELSE <<Call("rect", <<vector.x, vector.y, vector.w, vector.h>>, <<>>)>>)
           \o (IF Has(vector, "linearGradient")
               THEN <<Call("linearGradient",
                           <<vector.x, vector.y, vector.x + vector.w, vector.y>>, <<>>)>>
               ELSE <<>>)
      [] vector.type = "line" ->
           <<Call("moveTo", <<vector.x1, vector.y1>>, <<>>),
             Call("lineTo", <<vector.x2, vector.y2>>, <<>>)>>
      [] vector.type = "polyline" -> PolylinePath(vector)
      [] vector.type = "path" -> <<Call("path", <<>>, <<vector.d>>)>>
      [] OTHER -> <<>>

\* `gradient` is non-null after the switch
HasGradient(vector) ==
    vector.type \in {"ellipse", "rect"} /\ Has(vector, "linearGradient")

\* renderVector, lines 648-653: gradient.stop(i * step, colour) with
\* step = 1 / (length - 1); the offset is kept as the fraction <<i, length - 1>>
GradientStops(vector) ==
    IF HasGradient(vector)
    THEN [k \in 1..Len(vector.linearGradient) |->
            Call("gradient.stop", <<k - 1, Len(vector.linearGradient) - 1>>,
                 <<vector.linearGradient[k]>>)]
    ELSE <<>>

\* renderVector, lines 655-660: the vector as the paint decision sees it
\* (vector.color overwritten by the gradient, then by the resolved pattern)
ResolveColor(vector, patterns) ==
    LET v1 == IF HasGradient(vector) THEN SetField(vector, "color", <<"#gradient">>) ELSE vector
    IN IF Has(v1, "color") /\ isPattern(v1.color)
       THEN SetField(v1, "color", getPattern(v1.color, patterns))
       ELSE v1

\* the older form of line 662: vector.fillOpacity || 1, which loses an opacity of 0
FillOpacityOrOne(vector) == NumOr(vector, "fillOpacity", 100)

\* renderVector, line 662
FillOpacity(vector) == IF isNumber(vector, "fillOpacity") THEN vector.fillOpacity ELSE 100

\* renderVector, line 663
StrokeOpacity(vector) == IF isNumber(vector, "strokeOpacity") THEN vector.strokeOpacity ELSE 100

\* a slip in lines 665-668: fill and stroke issued one after the other
VectorPaintSeparately(vector) ==
    IF TruthyStr(vector, "color") /\ TruthyStr(vector, "lineColor")
    THEN <<Call("fillColor", <<FillOpacity(vector)>>, <<vector.color>>),
           Call("fill", <<>>, <<>>),
           Call("strokeColor", <<StrokeOpacity(vector)>>, <<vector.lineColor>>),
           Call("stroke", <<>>, <<>>)>>
    ELSE IF TruthyStr(vector, "color")
    THEN <<Call("fillColor", <<FillOpacity(vector)>>, <<vector.color>>),
           Call("fill", <<>>, <<>>)>>
    ELSE <<Call("strokeColor", <<StrokeOpacity(vector)>>, <<StrOr(vector, "lineColor", <<"black">>)>>),
           Call("stroke", <<>>, <<>>)>>

\* renderVector, lines 665-675: the paint decision on the resolved vector
VectorPaint(vector) ==
    IF TruthyStr(vector, "color") /\ TruthyStr(vector, "lineColor")
    THEN <<Call("fillColor", <<FillOpacity(vector)>>, <<vector.color>>),
           Call("strokeColor", <<StrokeOpacity(vector)>>, <<vector.lineColor>>),
           Call("fillAndStroke", <<>>, <<>>)>>
    ELSE IF TruthyStr(vector, "color")
    THEN <<Call("fillColor", <<FillOpacity(vector)>>, <<vector.color>>),
           Call("fill", <<>>, <<>>)>>
    ELSE <<Call("strokeColor", <<StrokeOpacity(vector)>>, <<StrOr(vector, "lineColor", <<"black">>)>>),
           Call("stroke", <<>>, <<>>)>>

\* renderVector returning early for a polyline without points
renderVectorSkippingEmpty(vector, patterns) ==
    IF startsWithX(vector.type)
    THEN [calls |-> renderXVector(vector), item |-> vector]
    ELSE IF vector.type = "polyline" /\ Len(vector.points) = 0
    THEN [calls |-> <<>>, item |-> vector]
    ELSE LET resolved == ResolveColor(vector, patterns)
         IN [calls |-> VectorStyle(vector) \o VectorPath(vector) \o GradientStops(vector)
                         \o VectorPaint(resolved),
             item |-> resolved]

\* renderVector: the calls issued and the vector as it is left
renderVector(vector, patterns) ==
    IF startsWithX(vector.type)
    THEN [calls |-> renderXVector(vector), item |-> vector]
    ELSE LET resolved == ResolveColor(vector, patterns)
         IN [calls |-> VectorStyle(vector) \o VectorPath(vector) \o GradientStops(vector)
                         \o VectorPaint(resolved),
             item |-> resolved]

----------------------------------------------------------------------------
(* Lines *)

DigitChars == <<"0", "1", "2", "3", "4", "5", "6", "7", "8", "9">>

\* Number.prototype.toString for a page number: its decimal digits
RECURSIVE toString(_)
toString(n) ==
    IF n < 10 THEN <<DigitChars[n + 1]>>
    ELSE toString(n \div 10) \o <<DigitChars[(n % 10) + 1]>>

\* TextTools.widthOfString: every glyph is half the font size wide, plus the
\* character spacing between glyphs
widthOfString(text, font, fontSize, characterSpacing, fontFeatures) ==
    Len(text) * Half(fontSize) + characterSpacing * (IF Len(text) > 0 THEN Len(text) - 1 ELSE 0)

\* a slip in offsetText: the subscript shift skipped when the inline is superscript
offsetTextExclusive(y, inline) ==
    IF GetOr(inline, "sup", FALSE) THEN y - (inline.fontSize * 75) \div 100
    ELSE IF GetOr(inline, "sub", FALSE) THEN y + (inline.fontSize * 35) \div 100
    ELSE y

\* offsetText
offsetText(y, inline) ==
    LET y1 == IF GetOr(inline, "sup", FALSE) THEN y - (inline.fontSize * 75) \div 100 ELSE y
    IN IF GetOr(inline, "sub", FALSE) THEN y1 + (inline.fontSize * 35) \div 100 ELSE y1

\* a slip in lines 486-493: a centred inline shifted by the whole difference
AlignmentShiftCenterFull(alignment, diffWidth) ==
    CASE alignment = <<"right">> -> diffWidth
      [] alignment = <<"center">> -> diffWidth
      [] OTHER -> 0

\* the shift preparePageNodeRefLine adds to inline.x
AlignmentShift(alignment, diffWidth) ==
    CASE alignment = <<"right">> -> diffWidth
      [] alignment = <<"center">> -> Half(diffWidth)
      [] OTHER -> 0

\* a slip in lines 480-484: the remeasured width not written back to the inline
preparePageNodeRefLineKeepingWidth(pageNodeRef, inline) ==
    IF ~Has(pageNodeRef, "positions")
    THEN [throws |-> TRUE, inline |-> inline]
    ELSE LET pageNumber == toString(pageNodeRef.positions[1].pageNumber)
             newWidth == widthOfString(pageNumber, inline.font, inline.fontSize,
                                       GetOr(inline, "characterSpacing", 0),
                                       GetOr(inline, "fontFeatures", <<>>))
             diffWidth == inline.width - newWidth
         IN [throws |-> FALSE,
             inline |-> [inline EXCEPT !.text = pageNumber,
                                       !.x = @ + AlignmentShift(GetOr(inline, "alignment", <<>>), diffWidth)]]

\* a slip in lines 482-484: the shift taken from the new width itself, not from
\* its difference to the width before
preparePageNodeRefLineShiftingByWidth(pageNodeRef, inline) ==
    IF ~Has(pageNodeRef, "positions")
    THEN [throws |-> TRUE, inline |-> inline]
    ELSE LET pageNumber == toString(pageNodeRef.positions[1].pageNumber)
             newWidth == widthOfString(pageNumber, inline.font, inline.fontSize,
                                       GetOr(inline, "characterSpacing", 0),
                                       GetOr(inline, "fontFeatures", <<>>))
             diffWidth == newWidth
         IN [throws |-> FALSE,
             inline |-> [inline EXCEPT !.text = pageNumber,
                                       !.width = newWidth,
                                       !.x = @ + AlignmentShift(GetOr(inline, "alignment", <<>>), diffWidth)]]

\* renderLine.preparePageNodeRefLine: throws when the reference has no positions,
\* else rewrites the inline's text, width and x
preparePageNodeRefLine(pageNodeRef, inline) ==
    IF ~Has(pageNodeRef, "positions")
    THEN [throws |-> TRUE, inline |-> inline]
    ELSE LET pageNumber == toString(pageNodeRef.positions[1].pageNumber)
             newWidth == widthOfString(pageNumber, inline.font, inline.fontSize,
                                       GetOr(inline, "characterSpacing", 0),
                                       GetOr(inline, "fontFeatures", <<>>))
             diffWidth == inline.width - newWidth
         IN [throws |-> FALSE,
             inline |-> [inline EXCEPT !.text = pageNumber,
                                       !.width = newWidth,
                                       !.x = @ + AlignmentShift(GetOr(inline, "alignment", <<>>), diffWidth)]]

\* renderLine, lines 518-536: the options of the text call
TextOptions(line, inline, k) ==
    [lineBreak |-> FALSE, textWidth |-> inline.width, wordCount |-> 1]
    @@ (IF Has(inline, "characterSpacing") THEN [characterSpacing |-> inline.characterSpacing] ELSE NoOpt)
    @@ (IF Has(inline, "link") THEN [link |-> inline.link] ELSE NoOpt)
    @@ (IF TruthyStr(inline, "linkToDestination") THEN [goTo |-> inline.linkToDestination] ELSE NoOpt)
    @@ (IF TruthyStr(line, "id") /\ k = 0 THEN [destination |-> line.id] ELSE NoOpt)
    @@ (IF Has(inline, "fontFeatures") THEN [features |-> inline.fontFeatures] ELSE NoOpt)

\* a slip in lines 538-539: inline.opacity || 1, which loses an opacity of 0
InlineCallsOpacityOrOne(line, inline, x, y, k) ==
    LET lineHeight == line.height
        ascenderHeight == line.ascenderHeight
        descent == lineHeight - ascenderHeight
        shiftToBaseline == lineHeight - ((inline.font.ascender * inline.fontSize) \div 1000) - descent
        opacity == NumOr(inline, "opacity", 100)
        shiftedY == offsetText(y + shiftToBaseline, inline)
    IN <<Call("opacity", <<opacity>>, <<>>),
         Call("fill", <<>>, <<StrOr(inline, "color", <<"black">>)>>),
         Call("_font", <<>>, <<inline.font.name>>),
         Call("fontSize", <<inline.fontSize>>, <<>>),
         CallO("text", <<x + inline.x, shiftedY>>, <<inline.text>>, TextOptions(line, inline, k))>>
       \o (IF TruthyNum(inline, "linkToPage")
           THEN <<Call("ref", <<inline.linkToPage, 0, 0>>, <<<<"Action">>, <<"GoTo">>>>),
                  CallO("annotate", <<x + inline.x, shiftedY, inline.width, inline.height>>, <<>>,
                        [Subtype |-> <<"Link">>, Dest |-> inline.linkToPage - 1])>>
           ELSE <<>>)

\* renderLine, lines 512-554: the Sink calls for one (already resolved) inline,
\* k its 0-based index
InlineCalls(line, inline, x, y, k) ==
    LET lineHeight == line.height
        ascenderHeight == line.ascenderHeight
        descent == lineHeight - ascenderHeight
        shiftToBaseline == lineHeight - ((inline.font.ascender * inline.fontSize) \div 1000) - descent
        opacity == IF isNumber(inline, "opacity") THEN inline.opacity ELSE 100
        shiftedY == offsetText(y + shiftToBaseline, inline)
    IN <<Call("opacity", <<opacity>>, <<>>),
         Call("fill", <<>>, <<StrOr(inline, "color", <<"black">>)>>),
         Call("_font", <<>>, <<inline.font.name>>),
         Call("fontSize", <<inline.fontSize>>, <<>>),
         CallO("text", <<x + inline.x, shiftedY>>, <<inline.text>>, TextOptions(line, inline, k))>>
       \o (IF TruthyNum(inline, "linkToPage")
           THEN <<Call("ref", <<inline.linkToPage, 0, 0>>, <<<<"Action">>, <<"GoTo">>>>),
                  CallO("annotate", <<x + inline.x, shiftedY, inline.width, inline.height>>, <<>>,
                        [Subtype |-> <<"Link">>, Dest |-> inline.linkToPage - 1])>>
           ELSE <<>>)

\* renderLine, the loop over line.inlines from 0-based index k on: acc holds the
\* calls issued, the inlines as rewritten and whether a reference threw
RECURSIVE RenderInlines(_, _, _, _, _)
RenderInlines(line, x, y, k, acc) ==
    IF acc.throws \/ k >= Len(acc.inlines) THEN acc
    ELSE LET inline == acc.inlines[k + 1]
             prep == IF Has(inline, "_pageNodeRef")
                     THEN preparePageNodeRefLine(inline._pageNodeRef, inline)
                     ELSE [throws |-> FALSE, inline |-> inline]
         IN IF prep.throws
            THEN [acc EXCEPT !.throws = TRUE]
            ELSE RenderInlines(line, x, y, k + 1,
                   [calls |-> acc.calls \o InlineCalls(line, prep.inline, x, y, k),
                    inlines |-> [acc.inlines EXCEPT ![k + 1] = prep.inline],
                    throws |-> FALSE])

\* a slip in renderLine: the decorations drawn at the first inline's shifted baseline
renderLineDecoratingShifted(line, patterns) ==
    LET first == IF Has(line, "_pageNodeRef")
                 THEN preparePageNodeRefLine(line._pageNodeRef, line.inlines[1])
                 ELSE [throws |-> FALSE, inline |-> line.inlines[1]]
        x == NumOr(line, "x", 0)
        y == NumOr(line, "y", 0)
    IN IF first.throws
       THEN [calls |-> <<>>, item |-> line, throws |-> TRUE]
       ELSE LET inlines1 == IF Has(line, "_pageNodeRef")
                            THEN [line.inlines EXCEPT ![1] = first.inline]
                            ELSE line.inlines
                r == RenderInlines(line, x, y, 0,
                       [calls |-> <<Call("textDecorator.drawBackground", <<x, y>>, <<>>)>>,
                        inlines |-> inlines1, throws |-> FALSE])
            IN [calls |-> IF r.throws THEN r.calls
                          ELSE r.calls \o <<Call("textDecorator.drawDecorations",
                                                 <<x, offsetText(y, line.inlines[1])>>, <<>>)>>,
                item |-> [line EXCEPT !.inlines = r.inlines],
                throws |-> r.throws]

\* renderLine(line, x, y, patterns, pdfKitDoc) as renderPages calls it, with
\* x = line.x and y = line.y: the calls issued, the line as it is left, and
\* whether 'Page reference id not found' was thrown
renderLine(line, patterns) ==
    LET first == IF Has(line, "_pageNodeRef")
                 THEN preparePageNodeRefLine(line._pageNodeRef, line.inlines[1])
                 ELSE [throws |-> FALSE, inline |-> line.inlines[1]]
        x == NumOr(line, "x", 0)
        y == NumOr(line, "y", 0)
    IN IF first.throws
       THEN [calls |-> <<>>, item |-> line, throws |-> TRUE]
       ELSE LET inlines1 == IF Has(line, "_pageNodeRef")
                            THEN [line.inlines EXCEPT ![1] = first.inline]
                            ELSE line.inlines
                r == RenderInlines(line, x, y, 0,
                       [calls |-> <<Call("textDecorator.drawBackground", <<x, y>>, <<>>)>>,
                        inlines |-> inlines1, throws |-> FALSE])
            IN [calls |-> IF r.throws THEN r.calls
                          ELSE r.calls \o <<Call("textDecorator.drawDecorations", <<x, y>>, <<>>)>>,
                item |-> [line EXCEPT !.inlines = r.inlines],
                throws |-> r.throws]

----------------------------------------------------------------------------
(* Images, SVG, clipping, watermark *)

\* docTransformRotate; an undefined angle gives (NaN).toFixed(2) = 'NaN'
docTransformRotate(image) ==
    LET a == IF Has(image, "rotation") THEN <<toFixed2Neg(image.rotation)>> ELSE <<>>
        s == IF Has(image, "rotation") THEN <<>> ELSE <<<<"NaN">>>>
    IN IF Has(image, "rotationOrigin")
       THEN <<Call("rotate", a \o <<image.rotationOrigin.x, image.rotationOrigin.y>>, s)>>
       ELSE <<Call("rotate", a, s)>>

\* renderXImage
renderXImage(image) ==
    <<Call("save", <<>>, <<>>)>>
    \o (IF GetOr(image, "rotation", 1) # 0 THEN docTransformRotate(image) ELSE <<>>)
    \o (IF GetOr(image, "xImageFlipV", FALSE) \/ GetOr(image, "xImageFlipH", FALSE)
        THEN <<Call("scale", <<IF GetOr(image, "xImageFlipH", FALSE) THEN -100 ELSE 100,
                               IF GetOr(image, "xImageFlipV", FALSE) THEN -100 ELSE 100,
                               image.x + Half(image._width), image.y + Half(image._height)>>, <<>>)>>
        ELSE <<>>)
    \o <<CallO("image", <<image.x, image.y>>, <<image.image>>,
               [width |-> image._width, height |-> image._height]),
         Call("restore", <<>>, <<>>)>>

\* a slip in lines 689-692: the cover bracket not closed
CoverImageLeftOpen(image) ==
    LET align == StrOr(image.cover, "align", <<"center">>)
        valign == StrOr(image.cover, "valign", <<"center">>)
        width == IF TruthyNum(image.cover, "width") THEN image.cover.width ELSE image.width
        height == IF TruthyNum(image.cover, "height") THEN image.cover.height ELSE image.height
    IN <<Call("save", <<>>, <<>>),
         Call("rect", <<image.x, image.y, width, height>>, <<>>),
         Call("clip", <<>>, <<>>),
         CallO("image", <<image.x, image.y>>, <<image.image>>,
               [cover |-> <<width, height>>, align |-> align, valign |-> valign])>>

\* renderImage, lines 684-692: cover mode
CoverImage(image) ==
    LET align == StrOr(image.cover, "align", <<"center">>)
        valign == StrOr(image.cover, "valign", <<"center">>)
        width == IF TruthyNum(image.cover, "width") THEN image.cover.width ELSE image.width
        height == IF TruthyNum(image.cover, "height") THEN image.cover.height ELSE image.height
    IN <<Call("save", <<>>, <<>>),
         Call("rect", <<image.x, image.y, width, height>>, <<>>),
         Call("clip", <<>>, <<>>),
         CallO("image", <<image.x, image.y>>, <<image.image>>,
               [cover |-> <<width, height>>, align |-> align, valign |-> valign]),
         Call("restore", <<>>, <<>>)>>

\* a slip in lines 696-705: the three annotations chained with else
ImageLinksExclusive(image) ==
    IF TruthyStr(image, "link")
    THEN <<Call("link", <<image.x, image.y, image._width, image._height>>, <<image.link>>)>>
    ELSE IF TruthyNum(image, "linkToPage")
    THEN <<Call("ref", <<image.linkToPage, 0, 0>>, <<<<"Action">>, <<"GoTo">>>>),
           CallO("annotate", <<image.x, image.y, image._width, image._height>>, <<>>,
                 [Subtype |-> <<"Link">>, Dest |-> image.linkToPage - 1])>>
    ELSE IF TruthyStr(image, "linkToDestination")
    THEN <<Call("goTo", <<image.x, image.y, image._width, image._height>>,
                <<image.linkToDestination>>)>>
    ELSE <<>>

\* renderImage, lines 696-705: the link annotations
ImageLinks(image) ==
    (IF TruthyStr(image, "link")
     THEN <<Call("link", <<image.x, image.y, image._width, image._height>>, <<image.link>>)>>
     ELSE <<>>)
    \o (IF TruthyNum(image, "linkToPage")
        THEN <<Call("ref", <<image.linkToPage, 0, 0>>, <<<<"Action">>, <<"GoTo">>>>),
               CallO("annotate", <<image.x, image.y, image._width, image._height>>, <<>>,
                     [Subtype |-> <<"Link">>, Dest |-> image.linkToPage - 1])>>
        ELSE <<>>)
    \o (IF TruthyStr(image, "linkToDestination")
        THEN <<Call("goTo", <<image.x, image.y, image._width, image._height>>,
                    <<image.linkToDestination>>)>>
        ELSE <<>>)

\* renderImage
renderImage(image) ==
    <<Call("opacity", <<IF isNumber(image, "opacity") THEN image.opacity ELSE 100>>, <<>>)>>
    \o (IF GetOr(image, "xImage", FALSE) THEN renderXImage(image)
        ELSE IF Has(image, "cover") THEN CoverImage(image)
        ELSE <<CallO("image", <<image.x, image.y>>, <<image.image>>,
                     [width |-> image._width, height |-> image._height])>>)
    \o ImageLinks(image)

\* fontProvider.fonts: the font families the document defines
ProviderFonts == {"Roboto"}

\* findFont over the one family SVGtoPDF asks for
findFont(fonts, requiredFont, defaultFont) ==
    IF requiredFont \in fonts THEN requiredFont ELSE defaultFont

\* renderSVG: svg.svg is the font families the SVG's text asks the font callback
\* for; the callback throws when fontProvider.getFontFile returns null
renderSVG(svg, fonts) ==
    [calls |-> <<CallO("SVGtoPDF", <<svg.x, svg.y>>, <<svg.svg>>,
                       [width |-> svg._width, height |-> svg._height, assumePt |-> TRUE])>>,
     throws |-> \E k \in 1..Len(svg.svg) :
                   findFont(fonts, svg.svg[k], GetOr(svg, "font", "Roboto")) \notin fonts]

\* beginClip
beginClip(rect) ==
    <<Call("save", <<>>, <<>>),
      Call("addContent", <<rect.x, rect.y, rect.width, rect.height>>, <<<<"re">>>>),
      Call("clip", <<>>, <<>>)>>

\* endClip
endClip == <<Call("restore", <<>>, <<>>)>>

\* renderWatermark; pageSize = <<pdfKitDoc.page.width, pdfKitDoc.page.height>>
renderWatermark(page, pageSize) ==
    LET watermark == page.watermark
        x == Half(pageSize[1]) - Half(watermark._size.size.width)
        y == Half(pageSize[2]) - Half(watermark._size.size.height)
    IN <<Call("fill", <<>>, <<watermark.color>>),
         Call("opacity", <<watermark.opacity>>, <<>>),
         Call("save", <<>>, <<>>),
         Call("rotate", <<watermark.angle, Half(pageSize[1]), Half(pageSize[2])>>, <<>>),
         Call("_font", <<>>, <<watermark.font.name>>),
         Call("fontSize", <<watermark.fontSize>>, <<>>),
         CallO("text", <<x, y>>, <<watermark.text>>, [lineBreak |-> FALSE]),
         Call("restore", <<>>, <<>>)>>

----------------------------------------------------------------------------
(* The render driver *)

\* the result of one case of the switch in renderPages
ItemResult(calls, item, throws) == [calls |-> calls, item |-> item, throws |-> throws]

\* a slip in the switch of renderPages: the last case written as the default
DispatchItemDefaultEndClip(entry, patterns) ==
    CASE entry.type = "vector" ->
           LET r == renderVector(entry.item, patterns) IN ItemResult(r.calls, r.item, FALSE)
      [] entry.type = "line" ->
           LET r == renderLine(entry.item, patterns) IN ItemResult(r.calls, r.item, r.throws)
      [] entry.type = "image" -> ItemResult(renderImage(entry.item), entry.item, FALSE)
      [] entry.type = "svg" ->
           LET r == renderSVG(entry.item, ProviderFonts) IN ItemResult(r.calls, entry.item, r.throws)
      [] entry.type = "beginClip" -> ItemResult(beginClip(entry.item), entry.item, FALSE)
      [] OTHER -> ItemResult(endClip, entry.item, FALSE)

\* renderPages, lines 421-440: the switch on item.type; an unlisted tag does nothing
DispatchItem(entry, patterns) ==
    CASE entry.type = "vector" ->
           LET r == renderVector(entry.item, patterns) IN ItemResult(r.calls, r.item, FALSE)
      [] entry.type = "line" ->
           LET r == renderLine(entry.item, patterns) IN ItemResult(r.calls, r.item, r.throws)
      [] entry.type = "image" -> ItemResult(renderImage(entry.item), entry.item, FALSE)
      [] entry.type = "svg" ->
           LET r == renderSVG(entry.item, ProviderFonts) IN ItemResult(r.calls, entry.item, r.throws)
      [] entry.type = "beginClip" -> ItemResult(beginClip(entry.item), entry.item, FALSE)
      [] entry.type = "endClip" -> ItemResult(endClip, entry.item, FALSE)
      [] OTHER -> ItemResult(<<>>, entry.item, FALSE)

\* the calls of one origin, tagged: src is "createPatterns", "orientation",
\* "addPage", "item" or "watermark"; page and item are the 0-based i and ii
Tag(calls, src, p, k) ==
    [j \in 1..Len(calls) |-> calls[j] @@ [src |-> src, page |-> p, item |-> k]]

\* a slip in line 388: a square size taken for landscape
previousPageOrientationWithGe(sz) == IF sz[1] >= sz[2] THEN "landscape" ELSE "portrait"

\* updatePageOrientationInOptions, line 388
previousPageOrientation(sz) == IF sz[1] > sz[2] THEN "landscape" ELSE "portrait"

\* a slip in lines 390-394: the swap made for every landscape page, whatever
\* the size configured so far
updatePageOrientationIgnoringSize(currentPage, sz) ==
    IF currentPage.pageSize.orientation = "landscape"
    THEN [size |-> <<sz[2], sz[1]>>, calls |-> <<Call("options.size=", <<sz[2], sz[1]>>, <<>>)>>]
    ELSE [size |-> sz, calls |-> <<>>]

\* updatePageOrientationInOptions: the new options.size, and the write of it
updatePageOrientationInOptions(currentPage, sz) ==
    IF currentPage.pageSize.orientation # previousPageOrientation(sz)
    THEN [size |-> <<sz[2], sz[1]>>, calls |-> <<Call("options.size=", <<sz[2], sz[1]>>, <<>>)>>]
    ELSE [size |-> sz, calls |-> <<>>]

\* createPdfKitDocument, lines 151-154: the pages handed to renderPages;
\* maxPagesNumber is <<>> (absent) or the number num/den as <<num, den>>,
\* and Array.prototype.slice truncates its end index
SlicePages(pgs, maxPages) ==
    LET falsy == maxPages = <<>> \/ maxPages[1] = 0
        end == IF falsy THEN 0 ELSE maxPages[1] \div maxPages[2]
    IN IF falsy THEN pgs
       ELSE SubSeq(pgs, 1, IF end < Len(pgs) THEN end ELSE Len(pgs))

\* a slip in lines 403-405: the count assigned instead of accumulated
RECURSIVE SumItemsNotAccumulated(_)
SumItemsNotAccumulated(pgs) ==
    IF pgs = <<>> THEN 0
    ELSE IF Tail(pgs) = <<>> THEN Len(Head(pgs).items) ELSE SumItemsNotAccumulated(Tail(pgs))

\* renderPages, lines 401-406
RECURSIVE SumItems(_)
SumItems(pgs) ==
    IF pgs = <<>> THEN 0 ELSE Len(Head(pgs).items) + SumItems(Tail(pgs))

\* createPatterns: one pdfKitDoc.pattern call per key
RECURSIVE PatternCalls(_)
PatternCalls(names) ==
    IF names = {} THEN <<>>
    ELSE LET p == CHOOSE q \in names : TRUE
         IN <<Call("pattern", <<>>, <<<<p>>>>)>> \o PatternCalls(names \ {p})

----------------------------------------------------------------------------
(* Inputs: the documents the model renders *)

MaxPages == 3
MaxItems == 3
MaxPoints == 3

\* the sets of records with an optional field f drawn from S
Opt(f, S) == {NoOpt} \cup {f :> v : v \in S}

\* all merges of a record of A with a record of B
Merge(A, B) == {a @@ b : a \in A, b \in B}

SeqsUpTo(S, n) == UNION {[1..k -> S] : k \in 0..n}

Roboto == [name |-> <<"Roboto">>, ascender |-> 900]

(* vectors *)
PaintSets ==
    Merge(Merge(Opt("color", {<<"red">>, <<"stripe45d", "blue">>}), Opt("lineColor", {<<"green">>})),
          Merge(Opt("fillOpacity", {0, 50}), Opt("strokeOpacity", {0, 50})))

GradientSets ==
    Opt("linearGradient", {<<>>, <<<<"white">>>>, <<<<"white">>, <<"navy">>>>,
                           <<<<"white">>, <<"navy">>, <<"black">>>>})

StyleSets ==
    {NoOpt,
     [lineWidth |-> 200, dash |-> [length |-> 300], lineJoin |-> <<"round">>, lineCap |-> <<"square">>],
     [lineWidth |-> 0, dash |-> [length |-> 300, space |-> 100, phase |-> 50]]}

Points == {[x |-> 0, y |-> 0], [x |-> 1000, y |-> 500]}

GradientShapes ==
    {[type |-> "ellipse", x |-> 5000, y |-> 5000, r1 |-> 2000, r2 |-> 1000],
     [type |-> "rect", x |-> 1000, y |-> 2000, w |-> 3000, h |-> 4000],
     [type |-> "rect", x |-> 1000, y |-> 2000, w |-> 3000, h |-> 4000, r |-> 500],
     [type |-> "line", x1 |-> 0, y1 |-> 0, x2 |-> 1000, y2 |-> 2000]}

PlainShapes ==
    {[type |-> "path", d |-> <<"M 0 0 L 10 10">>],
     [type |-> "triangle", x |-> 0, y |-> 0]}

Polylines ==
    Merge({[type |-> "polyline", points |-> ps] : ps \in SeqsUpTo(Points, MaxPoints)},
          Opt("closePath", {TRUE}))

StdVectors ==
    Merge(Merge(Merge(GradientShapes, GradientSets), PaintSets), StyleSets)
    \cup Merge(Merge(PlainShapes, PaintSets), StyleSets)
    \cup Merge(Polylines, PaintSets)
    \cup Merge(Merge({[type |-> "polyline", points |-> <<>>]}, Opt("linearGradient", {<<<<"white">>>>})),
               {[color |-> <<"red">>, lineWidth |-> 200], [lineColor |-> <<"green">>]})

Origins == Opt("origin", {[x |-> 100, y |-> 200]})

StartPoints == {NoOpt, [x1 |-> 0, y1 |-> 0], [x1 |-> 0]}

XInstructions ==
    {[type |-> ty] : ty \in {"x-saveContext", "x-restoreContext", "x-closePath", "x-unknown"}}
    \cup Merge({[type |-> "x-rotateContext", angle |-> 4500]}, Origins)
    \cup {[type |-> "x-translateContext", x |-> 100, y |-> 200]}
    \cup Merge({[type |-> "x-scaleContext", scale |-> 200]}, Origins)
    \cup Merge(Merge({[type |-> "x-lineStyle"]}, Opt("lineWidth", {0, 200})),
               Opt("dash", {[length |-> 300], [length |-> 300, space |-> 100]}))
    \cup Merge(Merge({[type |-> "x-strokeColor"]}, Opt("strokeColor", {<<"green">>})),
               Opt("strokeOpacity", {0, 50}))
    \cup Merge(Merge({[type |-> "x-fillColor"]}, Opt("fillColor", {<<"red">>})),
               Opt("fillOpacity", {0, 50}))
    \cup Merge({[type |-> "x-strokePath"]}, Opt("strokeColor", {<<"green">>}))
    \cup Merge({[type |-> "x-fillPath"]}, Opt("fillColor", {<<"red">>}))
    \cup Merge(Merge({[type |-> "x-fillAndStrokePath"]}, Opt("strokeColor", {<<"green">>})),
               Opt("fillColor", {<<"red">>}))
    \cup {[type |-> ty, x |-> 100, y |-> 200] : ty \in {"x-moveTo", "x-lineTo"}}
    \cup {[type |-> "x-line", x1 |-> 0, y1 |-> 0, x2 |-> 100, y2 |-> 200]}
    \cup {[type |-> ty, x |-> 100, y |-> 200, width |-> 300, height |-> 400] :
            ty \in {"x-rect", "x-clipToRect"}}
    \cup {[type |-> "x-ellipse", cx |-> 100, cy |-> 200, rx |-> 300, ry |-> 400]}
    \cup Merge({[type |-> "x-quadraticCurve", cpx |-> 1, cpy |-> 2, x2 |-> 3, y2 |-> 4]}, StartPoints)
    \cup Merge({[type |-> "x-bezierCurve", cpx1 |-> 1, cpy1 |-> 2, cpx2 |-> 3, cpy2 |-> 4,
                 x2 |-> 5, y2 |-> 6]}, StartPoints)

\* extended instructions, bare and carrying the standard paint fields
XVectors ==
    XInstructions \cup Merge(XInstructions, {[color |-> <<"red">>, lineColor |-> <<"green">>]})

Vectors == StdVectors \cup XVectors

(* lines *)
Ref7 == [id |-> <<"chapter">>, positions |-> <<[pageNumber |-> 7]>>]

Ref12 == [id |-> <<"index">>, positions |-> <<[pageNumber |-> 12], [pageNumber |-> 40]>>]

RefMissing == [id |-> <<"nowhere">>]

BaseInline ==
    [text |-> <<"0", "0">>, font |-> Roboto, fontSize |-> 1000, x |-> 2000, width |-> 1000,
     height |-> 1200]

Inline2 ==
    [text |-> <<"p", ".">>, font |-> Roboto, fontSize |-> 1000, x |-> 3000, width |-> 1000,
     height |-> 1200]

BaseLine == [height |-> 1200, ascenderHeight |-> 1000, y |-> 7000]

Alignments == Opt("alignment", {<<"left">>, <<"right">>, <<"center">>, <<"justify">>})

Refs == Opt("_pageNodeRef", {Ref7, Ref12, RefMissing})

\* lines whose inlines carry deferred page-number references
RefInlines ==
    Merge(Merge(Merge({BaseInline, [BaseInline EXCEPT !.width = 2000]}, Alignments), Refs),
          Opt("characterSpacing", {100}))

RefLines ==
    {l @@ [inlines |-> <<a>> \o rest] :
        l \in Merge(Merge({BaseLine}, Refs), Opt("x", {4000})),
        a \in RefInlines,
        rest \in {<<>>, <<Inline2>>,
                  <<[Inline2 EXCEPT !.width = 1500] @@ [alignment |-> <<"right">>, _pageNodeRef |-> Ref12]>>,
                  <<Inline2 @@ [_pageNodeRef |-> RefMissing]>>}}

\* lines whose inlines carry styling, links and superscript / subscript
StyledInlines ==
    Merge(Merge(Merge(Merge({BaseInline}, Opt("sup", {TRUE})), Opt("sub", {TRUE})),
                Merge(Opt("opacity", {0, 50}), Opt("color", {<<"blue">>}))),
          Merge(Merge(Opt("link", {<<"http://example.com">>}), Opt("linkToPage", {3})),
                Merge(Opt("linkToDestination", {<<"appendix">>}), Opt("fontFeatures", {<<"smcp">>}))))

StyledLines ==
    {l @@ [inlines |-> <<a>> \o rest] :
        l \in Merge({BaseLine @@ [x |-> 4000]}, Opt("id", {<<"intro">>})),
        a \in StyledInlines,
        rest \in {<<>>, <<Inline2>>}}

Lines == RefLines \cup StyledLines

(* images *)
BaseImage ==
    [image |-> <<"logo">>, x |-> 1000, y |-> 2000, width |-> 4000, height |-> 3000,
     _width |-> 4000, _height |-> 3000]

ImageLinkSets ==
    Merge(Merge(Opt("link", {<<"http://example.com">>}), Opt("linkToPage", {3})),
          Opt("linkToDestination", {<<"appendix">>}))

Covers == Opt("cover", {NoOpt, [width |-> 2000, height |-> 1000, align |-> <<"left">>, valign |-> <<"top">>]})

XImageSets ==
    Merge(Merge({[xImage |-> TRUE]}, Merge(Opt("rotation", {0, 4500}), Opt("rotationOrigin", {[x |-> 100, y |-> 200]}))),
          Merge(Opt("xImageFlipH", {TRUE}), Opt("xImageFlipV", {TRUE})))

Images ==
    Merge(Merge(Merge({BaseImage}, Covers), ImageLinkSets), Opt("opacity", {0, 50}))
    \cup Merge(Merge(Merge({BaseImage}, XImageSets), Opt("cover", {NoOpt})), ImageLinkSets)

(* svg *)
Svgs ==
    Merge({[svg |-> fams, x |-> 1000, y |-> 2000, _width |-> 4000, _height |-> 3000] :
              fams \in {<<>>, <<"Roboto">>, <<"Comic">>, <<"Roboto", "Comic">>}},
          Opt("font", {"Roboto", "Missing"}))

(* every kind of RenderItem *)
RichItems ==
    {[type |-> "vector", item |-> v] : v \in Vectors}
    \cup {[type |-> "line", item |-> l] : l \in Lines}
    \cup {[type |-> "image", item |-> im] : im \in Images}
    \cup {[type |-> "svg", item |-> s] : s \in Svgs}
    \cup {[type |-> "beginClip", item |-> [x |-> 0, y |-> 0, width |-> 1000, height |-> 2000]],
          [type |-> "endClip", item |-> NoOpt],
          [type |-> "qr", item |-> [x |-> 0, y |-> 0]]}

\* the items of the multi-page documents: a filled rectangle, an item of an
\* unrecognized tag, and a line whose reference has no target
DriverItems ==
    {[type |-> "vector", item |-> [type |-> "rect", x |-> 1000, y |-> 2000, w |-> 3000, h |-> 4000,
                                   color |-> <<"red">>]],
     [type |-> "qr", item |-> [x |-> 0, y |-> 0]],
     [type |-> "line", item |-> BaseLine @@ [inlines |-> <<BaseInline @@ [_pageNodeRef |-> RefMissing]>>]]}

PagingItem == [type |-> "vector", item |-> [type |-> "x-saveContext"]]

Watermark ==
    [text |-> <<"draft">>, color |-> <<"gray">>, opacity |-> 30, angle |-> -4500, font |-> Roboto,
     fontSize |-> 6000, _size |-> [size |-> [width |-> 20000, height |-> 6000]]]

\* pdfKitDoc.options.size as createPdfKitDocument sets it from fixPageSize
DocSizes == {<<60000, 80000>>, <<80000, 60000>>, <<50000, 50000>>}

\* the page size the layout gives a page of orientation o in a document of size sz
PageSize(sz, o) ==
    IF o = previousPageOrientation(sz)
    THEN [width |-> sz[1], height |-> sz[2], orientation |-> o]
    ELSE [width |-> sz[2], height |-> sz[1], orientation |-> o]

\* documents of up to MaxPages pages, every page in either orientation (the
\* first in the document's own), each with at most one item
PagingDocs(sz) ==
    UNION {{[k \in 1..n |-> [pageSize |-> PageSize(sz, o[k]), items |-> its[k]]] :
              o \in {s \in [1..n -> {"portrait", "landscape"}] : s[1] = previousPageOrientation(sz)},
              its \in [1..n -> {<<>>, <<PagingItem>>}]} :
           n \in 1..MaxPages}

\* two-page documents with up to MaxItems items a page
ItemDocs ==
    {<<[pageSize |-> PageSize(<<60000, 80000>>, "portrait"), items |-> a],
       [pageSize |-> PageSize(<<60000, 80000>>, "portrait"), items |-> b]>> :
        a, b \in SeqsUpTo(DriverItems, MaxItems)}

\* one-page documents holding one item of any kind
SingleItemDocs ==
    {<<[pageSize |-> PageSize(<<60000, 80000>>, "portrait"), items |-> <<it>>]>> : it \in RichItems}

\* the items of the bracket documents: the driver's clip bracket, the extended
\* save / restore instructions, and an image in cover mode
ClipItems ==
    {[type |-> "beginClip", item |-> [x |-> 0, y |-> 0, width |-> 1000, height |-> 2000]],
     [type |-> "endClip", item |-> NoOpt],
     [type |-> "vector", item |-> [type |-> "x-saveContext"]],
     [type |-> "vector", item |-> [type |-> "x-restoreContext"]],
     [type |-> "image", item |-> BaseImage @@ [cover |-> NoOpt]]}

\* one-page documents of up to MaxItems bracket items
ClipDocs ==
    {<<[pageSize |-> PageSize(<<60000, 80000>>, "portrait"), items |-> its]>> :
        its \in SeqsUpTo(ClipItems, MaxItems)}

\* layoutBuilder.addWatermark puts the document's watermark on every page
WithWatermark(doc, wm) ==
    IF wm THEN [k \in 1..Len(doc) |-> doc[k] @@ [watermark |-> Watermark]] ELSE doc

\* docDefinition.maxPagesNumber: absent, 0, 1/2, 2
MaxPagesNumbers == {<<>>, <<0, 1>>, <<1, 2>>, <<2, 1>>}

UsesPattern(doc) ==
    \E k \in 1..Len(doc) : \E j \in 1..Len(doc[k].items) :
        /\ doc[k].items[j].type = "vector"
        /\ Has(doc[k].items[j].item, "color")
        /\ isPattern(doc[k].items[j].item.color)

InitInputs ==
    \/ /\ size \in DocSizes
       /\ \E wm \in BOOLEAN : \E doc \in PagingDocs(size) : layoutPages = WithWatermark(doc, wm)
       /\ maxPagesNumber \in MaxPagesNumbers
       /\ progressSupplied = TRUE
       /\ patternNames = {}
    \/ /\ size = <<60000, 80000>>
       /\ progressSupplied \in BOOLEAN
       /\ \E doc \in ItemDocs : layoutPages = WithWatermark(doc, progressSupplied)
       /\ maxPagesNumber = <<>>
       /\ patternNames = {}
    \/ /\ size = <<60000, 80000>>
       /\ layoutPages \in SingleItemDocs
       /\ maxPagesNumber = <<>>
       /\ progressSupplied = TRUE
       /\ patternNames \in (IF UsesPattern(layoutPages) THEN {{}, {"stripe45d"}} ELSE {{"stripe45d"}})
    \/ /\ size = <<60000, 80000>>
       /\ \E wm \in BOOLEAN : \E doc \in ClipDocs : layoutPages = WithWatermark(doc, wm)
       /\ maxPagesNumber = <<>>
       /\ progressSupplied = FALSE
       /\ patternNames = {}

Init ==
    /\ InitInputs
    /\ pages = <<>>
    /\ trace = <<>>
    /\ progress = <<>>
    /\ totalItems = 0
    /\ renderedItems = 0
    /\ i = 0
    /\ ii = 0
    /\ pc = "start"
    /\ firstTrace = <<>>

\* createPdfKitDocument up to the first iteration of renderPages' page loop
CreatePdfKitDocument ==
    /\ pc = "start"
    /\ pages' = SlicePages(layoutPages, maxPagesNumber)
    /\ trace' = Tag(PatternCalls(patternNames), "createPatterns", -1, -1)
                \o Tag(<<Call("addPage", size, <<>>)>>, "addPage", 0, -1)
    /\ totalItems' = IF progressSupplied THEN SumItems(pages') ELSE 0
    /\ renderedItems' = 0
    /\ i' = 0
    /\ pc' = "pages"
    /\ UNCHANGED <<firstTrace, layoutPages, maxPagesNumber, patternNames, progressSupplied, size, progress, ii>>

\* a slip in the page loop: the watermark painted when the page is entered
BeginPageWatermarkFirst ==
    /\ pc = "pages"
    /\ i < Len(pages)
    /\ LET u == IF i > 0 THEN updatePageOrientationInOptions(pages[i + 1], size)
                ELSE [size |-> size, calls |-> <<>>]
       IN /\ size' = u.size
          /\ trace' = trace \o Tag(u.calls, "orientation", i, -1)
                            \o (IF i > 0 THEN Tag(<<Call("addPage", u.size, <<>>)>>, "addPage", i, -1)
                                ELSE <<>>)
                            \o (IF Has(pages[i + 1], "watermark")
                                THEN Tag(renderWatermark(pages[i + 1], u.size), "watermark", i, -1)
                                ELSE <<>>)
    /\ ii' = 0
    /\ pc' = "items"
    /\ UNCHANGED <<firstTrace, layoutPages, maxPagesNumber, patternNames, progressSupplied, pages,
                   progress, totalItems, renderedItems, i>>

\* renderPages, lines 412-419: enter page i
BeginPage ==
    /\ pc = "pages"
    /\ i < Len(pages)
    /\ IF i > 0
       THEN LET u == updatePageOrientationInOptions(pages[i + 1], size)
            IN /\ size' = u.size
               /\ trace' = trace \o Tag(u.calls, "orientation", i, -1)
                                 \o Tag(<<Call("addPage", u.size, <<>>)>>, "addPage", i, -1)
       ELSE UNCHANGED <<size, trace>>
    /\ ii' = 0
    /\ pc' = "items"
    /\ UNCHANGED <<firstTrace, layoutPages, maxPagesNumber, patternNames, progressSupplied, pages,
                   progress, totalItems, renderedItems, i>>

\* a slip in the item loop: a thrown reference error swallowed, the pass going on
RenderItemSwallowingThrow ==
    /\ pc = "items"
    /\ ii < Len(pages[i + 1].items)
    /\ LET entry == pages[i + 1].items[ii + 1]
           r == DispatchItem(entry, createPatterns(patternNames))
       IN /\ trace' = trace \o Tag(r.calls, "item", i, ii)
          /\ pages' = [pages EXCEPT ![i + 1].items[ii + 1].item = r.item]
          /\ renderedItems' = IF r.throws THEN renderedItems ELSE renderedItems + 1
          /\ progress' = IF progressSupplied /\ ~r.throws
                         THEN Append(progress, <<renderedItems', totalItems>>)
                         ELSE progress
          /\ ii' = ii + 1
          /\ pc' = "items"
    /\ UNCHANGED <<firstTrace, layoutPages, maxPagesNumber, patternNames, progressSupplied, size, totalItems, i>>

\* a slip in the item loop: the item painted under the page's earlier items,
\* its calls placed right behind the page's addPage
RenderItemUnderEarlierItems ==
    /\ pc = "items"
    /\ ii < Len(pages[i + 1].items)
    /\ LET entry == pages[i + 1].items[ii + 1]
           r == DispatchItem(entry, createPatterns(patternNames))
           q == CHOOSE a \in 1..Len(trace) : trace[a].src = "addPage" /\ trace[a].page = i
       IN /\ trace' = SubSeq(trace, 1, q) \o Tag(r.calls, "item", i, ii)
                         \o SubSeq(trace, q + 1, Len(trace))
          /\ pages' = [pages EXCEPT ![i + 1].items[ii + 1].item = r.item]
          /\ IF r.throws
             THEN /\ pc' = "thrown"
                  /\ UNCHANGED <<renderedItems, progress, ii>>
             ELSE /\ renderedItems' = renderedItems + 1
                  /\ progress' = IF progressSupplied
                                 THEN Append(progress, <<renderedItems', totalItems>>)
                                 ELSE progress
                  /\ ii' = ii + 1
                  /\ pc' = "items"
    /\ UNCHANGED <<firstTrace, layoutPages, maxPagesNumber, patternNames, progressSupplied, size, totalItems, i>>

\* renderPages, lines 419-443: render item ii of page i and report progress
RenderItem ==
    /\ pc = "items"
    /\ ii < Len(pages[i + 1].items)
    /\ LET entry == pages[i + 1].items[ii + 1]
           r == DispatchItem(entry, createPatterns(patternNames))
       IN /\ trace' = trace \o Tag(r.calls, "item", i, ii)
          /\ pages' = [pages EXCEPT ![i + 1].items[ii + 1].item = r.item]
          /\ IF r.throws
             THEN /\ pc' = "thrown"
                  /\ UNCHANGED <<renderedItems, progress, ii>>
             ELSE /\ renderedItems' = renderedItems + 1
                  /\ progress' = IF progressSupplied
                                 THEN Append(progress, <<renderedItems', totalItems>>)
                                 ELSE progress
                  /\ ii' = ii + 1
                  /\ pc' = "items"
    /\ UNCHANGED <<firstTrace, layoutPages, maxPagesNumber, patternNames, progressSupplied, size, totalItems, i>>

\* renderPages, lines 444-447: the page's watermark, then the next page
EndPage ==
    /\ pc = "items"
    /\ ii >= Len(pages[i + 1].items)
    /\ trace' = trace \o (IF Has(pages[i + 1], "watermark")
                          THEN Tag(renderWatermark(pages[i + 1], size), "watermark", i, -1)
                          ELSE <<>>)
    /\ i' = i + 1
    /\ pc' = "pages"
    /\ UNCHANGED <<firstTrace, layoutPages, maxPagesNumber, patternNames, progressSupplied, pages, size,
                   progress, totalItems, renderedItems, ii>>

\* renderPages returns and createPdfKitDocument returns the document
ReturnDocument ==
    /\ pc = "pages"
    /\ i >= Len(pages)
    /\ pc' = "done"
    /\ UNCHANGED <<firstTrace, layoutPages, maxPagesNumber, patternNames, progressSupplied, pages, size,
                   trace, progress, totalItems, renderedItems, i, ii>>

\* renderPages called a second time on the same page objects, with a fresh
\* pdfKitDoc (its options.size as first configured) and freshly created
\* patterns: lines 398-409 again
RenderAgain ==
    /\ pc = "done"
    /\ firstTrace = <<>>
    /\ firstTrace' = trace
    /\ LET first == trace[CHOOSE a \in 1..Len(trace) : trace[a].src = "addPage" /\ trace[a].page = 0].n
       IN /\ size' = first
          /\ trace' = Tag(PatternCalls(patternNames), "createPatterns", -1, -1)
                      \o Tag(<<Call("addPage", first, <<>>)>>, "addPage", 0, -1)
    /\ totalItems' = IF progressSupplied THEN SumItems(pages) ELSE 0
    /\ renderedItems' = 0
    /\ progress' = <<>>
    /\ i' = 0
    /\ pc' = "pages"
    /\ UNCHANGED <<layoutPages, maxPagesNumber, patternNames, progressSupplied, pages, ii>>

\* the identifiers part_000 binds at module level: its require()d names and its
\* function declarations (createMetadata is among them, setMetadata is not)
ModuleScope ==
    {"PdfKitEngine", "FontProvider", "LayoutBuilder", "sizes", "ImageMeasure", "SVGMeasure",
     "textDecorator", "TextTools", "isFunction", "isString", "isNumber", "isBoolean", "isArray",
     "isUndefined", "isPattern", "getPattern", "SVGtoPDF", "findFont", "PdfPrinter",
     "createMetadata", "calculatePageHeight", "fixPageSize", "fixPageMargins",
     "registerDefaultTableLayouts", "pageSize2widthAndHeight", "updatePageOrientationInOptions",
     "renderPages", "offsetText", "renderLine", "renderWatermark", "renderVector", "renderImage",
     "renderSVG", "beginClip", "endClip", "createPatterns", "renderXImage", "docTransformRotate",
     "renderXVector", "xVecRotateContext", "xVecTranslateContext", "xVecScaleContext",
     "xVecLineStyle", "xVecStrokeColor", "xVecFillColor", "xVecStrokePath", "xVecFillPath",
     "xVecFillAndStrokePath", "xVecMoveTo", "xVecLineTo", "xVecLine", "xVecRect", "xVecElipse",
     "xVecQuadraticCurve", "xVecBezierCurve", "xVecClipToRect"}

\* computeDocumentLayout: the pdfKitDoc is created with autoFirstPage false (no
\* Sink call), then line 285 calls setMetadata; calling an identifier the
\* module does not bind raises a ReferenceError, otherwise the layout runs and
\* the writer's context is returned. renderPages is not called on either path.
ComputeDocumentLayout ==
    /\ pc = "start"
    /\ pc' = IF "setMetadata" \in ModuleScope THEN "layoutReturned" ELSE "layoutThrown"
    /\ UNCHANGED <<firstTrace, layoutPages, maxPagesNumber, patternNames, progressSupplied, pages,
                   size, trace, progress, totalItems, renderedItems, i, ii>>

Next ==
    \/ CreatePdfKitDocument \/ BeginPage \/ RenderItem \/ EndPage \/ ReturnDocument
    \/ RenderAgain
    \/ ComputeDocumentLayout

Spec == Init /\ [][Next]_vars

----------------------------------------------------------------------------
(* Vocabulary of the properties *)

\* the 0-based <<page, item>> indexes of the page list
ItemIndexes == UNION {{<<p, k>> : k \in 0..(Len(pages[p + 1].items) - 1)} : p \in 0..(Len(pages) - 1)}

\* the items whose case of the switch has run to its end
CompletedItems ==
    {pk \in ItemIndexes : pk[1] < i \/ (pk[1] = i /\ pc \in {"items", "thrown"} /\ pk[2] < ii)}

\* the Sink calls that came from item k of page p, in order
CallsOfItem(p, k) == SelectSeq(trace, LAMBDA c : c.src = "item" /\ c.page = p /\ c.item = k)

\* the Sink calls of one origin on page p, in order
CallsOfPage(src, p) == SelectSeq(trace, LAMBDA c : c.src = src /\ c.page = p)

\* the item as the layout produced it, and as the render pass left it
OriginalItem(p, k) == layoutPages[p + 1].items[k + 1].item

RenderedItem(p, k) == pages[p + 1].items[k + 1].item

TypeOfItem(p, k) == pages[p + 1].items[k + 1].type

CountOp(calls, ops) == Cardinality({j \in 1..Len(calls) : calls[j].op \in ops})

OpsOf(calls) == [j \in 1..Len(calls) |-> calls[j].op]

ImpliedOrientation(sz) == IF sz[1] > sz[2] THEN "landscape" ELSE "portrait"

\* positions of the addPage calls in the trace
AddPagePositions == {a \in 1..Len(trace) : trace[a].op = "addPage"}

\* C1: with a progress callback, after the k-th item (in document order) the
\* callback has been invoked exactly k times, the j-th time with j/N where N is
\* the number of items of all pages; the values increase strictly, the pass
\* ends with the last value equal to 1, and with N = 0 there is no invocation.
C1_ProgressFractions ==
    progressSupplied =>
        LET N == Cardinality(ItemIndexes)
        IN /\ Len(progress) = Cardinality(CompletedItems)
           /\ \A j \in 1..Len(progress) : progress[j] = <<j, N>>
           /\ \A j \in 1..(Len(progress) - 1) :
                 progress[j][1] * progress[j + 1][2] < progress[j + 1][1] * progress[j][2]
           /\ pc = "done" => Len(progress) = N
           /\ (pc = "done" /\ N > 0) => progress[N][1] = progress[N][2]
           /\ N = 0 => progress = <<>>

\* pages of 2 and 3 items were rendered to the end: 1/5, 2/5, 3/5, 4/5, 5/5
C1_Witness ==
    /\ pc = "done"
    /\ progressSupplied
    /\ Len(pages) = 2 /\ Len(pages[1].items) = 2 /\ Len(pages[2].items) = 3
    /\ progress = <<<<1, 5>>, <<2, 5>>, <<3, 5>>, <<4, 5>>, <<5, 5>>>>

\* C2: on a page with a watermark no call of an item of the page follows a
\* call of its watermark, and once the page is finished the watermark's calls
\* (fill, opacity, save, rotate, _font, fontSize, text, restore) are there.
C2_WatermarkLast ==
    /\ \A a, b \in 1..Len(trace) :
          (a < b /\ trace[a].src = "watermark" /\ trace[b].page = trace[a].page)
              => trace[b].src = "watermark"
    /\ \A p \in 0..(Len(pages) - 1) :
          (p < i /\ Has(pages[p + 1], "watermark"))
              => OpsOf(CallsOfPage("watermark", p))
                   = <<"fill", "opacity", "save", "rotate", "_font", "fontSize", "text", "restore">>

\* a finished page with a watermark and an item that drew something
C2_Witness ==
    \E p \in 0..(Len(pages) - 1) :
        /\ p < i
        /\ Has(pages[p + 1], "watermark")
        /\ Len(CallsOfPage("item", p)) > 0
        /\ Len(CallsOfPage("watermark", p)) > 0

\* C3: before the addPage of every page p > 0 the configured size is swapped
\* exactly when the page's orientation differs from the one the size configured
\* so far implies, the swap comes immediately before that addPage, and there is
\* no other swap; portrait, landscape, portrait from a portrait size gives
\* addPage, swap, addPage, swap, addPage.
C3_SwapBeforeAddPage ==
    /\ \A a \in AddPagePositions :
          trace[a].page > 0 =>
              LET p == trace[a].page
                  before == trace[CHOOSE b \in AddPagePositions : trace[b].page = p - 1].n
                  differs == pages[p + 1].pageSize.orientation # ImpliedOrientation(before)
                  swapped == /\ trace[a - 1].op = "options.size="
                             /\ trace[a - 1].page = p
                             /\ trace[a - 1].n = <<before[2], before[1]>>
              IN /\ swapped <=> differs
                 /\ trace[a].n = IF differs THEN <<before[2], before[1]>> ELSE before
    /\ \A b \in 1..Len(trace) :
          trace[b].op = "options.size="
              => b < Len(trace) /\ trace[b + 1].op = "addPage" /\ trace[b + 1].page = trace[b].page
    /\ (/\ pc = "done"
        /\ [k \in 1..Len(pages) |-> pages[k].pageSize.orientation] = <<"portrait", "landscape", "portrait">>
        /\ LET first == trace[CHOOSE b \in AddPagePositions : trace[b].page = 0].n
           IN first[1] < first[2])
           => OpsOf(SelectSeq(trace, LAMBDA c : c.op \in {"addPage", "options.size="}))
                = <<"addPage", "options.size=", "addPage", "options.size=", "addPage">>

\* portrait, landscape, portrait from a portrait size: a swap before the second
\* page, a swap back before the third, three addPage calls
C3_Witness ==
    /\ pc = "done"
    /\ Len(pages) = 3
    /\ [k \in 1..3 |-> pages[k].pageSize.orientation] = <<"portrait", "landscape", "portrait">>
    /\ OpsOf(SelectSeq(trace, LAMBDA c : c.op \in {"addPage", "options.size="}))
         = <<"addPage", "options.size=", "addPage", "options.size=", "addPage">>
    /\ SelectSeq(trace, LAMBDA c : c.op = "options.size=")[1].n = <<80000, 60000>>
    /\ SelectSeq(trace, LAMBDA c : c.op = "options.size=")[2].n = <<60000, 80000>>

\* C4 as stated: at every addPage for a page p > 0 the configured size implies
\* the page's orientation, for every configured size.
C4_OrientationMatches_Original ==
    \A a \in AddPagePositions :
        trace[a].page > 0
            => ImpliedOrientation(trace[a].n) = pages[trace[a].page + 1].pageSize.orientation

\* C4 amended: at every addPage for a page p > 0 whose configured size has
\* width # height, the size implies the page's orientation (portrait or
\* landscape), whatever the order of orientations in the page list.
C4_OrientationMatches ==
    \A a \in AddPagePositions :
        (trace[a].page > 0 /\ trace[a].n[1] # trace[a].n[2])
            => ImpliedOrientation(trace[a].n) = pages[trace[a].page + 1].pageSize.orientation

\* a landscape page after a portrait one, then a portrait page after it, on a
\* size that is not square
C4_Witness ==
    /\ pc = "done"
    /\ Len(pages) = 3
    /\ size[1] # size[2]
    /\ pages[1].pageSize.orientation # pages[2].pageSize.orientation
    /\ pages[2].pageSize.orientation # pages[3].pageSize.orientation

\* C5 as stated: when the pass has ended, the number of addPage calls equals the
\* number of pages, for the empty page list too.
C5_OnePagePerPage ==
    pc = "done" => Cardinality(AddPagePositions) = Len(pages)

\* the completed vector items: <<page, item>>
CompletedVectors == {pk \in CompletedItems : TypeOfItem(pk[1], pk[2]) = "vector"}

IsExtended(vector) == \E ty \in XTypes : vector.type = ty

BothColorsSet(vector) ==
    /\ Has(vector, "color") /\ vector.color # <<>>
    /\ Has(vector, "lineColor") /\ vector.lineColor # <<>>

\* C6 as stated: every vector of any type tag, extended instructions included,
\* whose fill colour and line colour are both set gets exactly one fillAndStroke
\* and neither a separate fill nor a separate stroke.
C6_FillAndStrokeOnce_Original ==
    \A pk \in CompletedVectors :
        BothColorsSet(OriginalItem(pk[1], pk[2]))
            => /\ CountOp(CallsOfItem(pk[1], pk[2]), {"fillAndStroke"}) = 1
               /\ CountOp(CallsOfItem(pk[1], pk[2]), {"fill", "stroke"}) = 0

\* C6 amended: every vector whose type does not start with 'x-' and whose fill
\* colour and line colour are both set gets exactly one fillAndStroke and
\* neither a separate fill nor a separate stroke.
C6_FillAndStrokeOnce ==
    \A pk \in CompletedVectors :
        (BothColorsSet(OriginalItem(pk[1], pk[2])) /\ ~IsExtended(OriginalItem(pk[1], pk[2])))
            => /\ CountOp(CallsOfItem(pk[1], pk[2]), {"fillAndStroke"}) = 1
               /\ CountOp(CallsOfItem(pk[1], pk[2]), {"fill", "stroke"}) = 0

\* a standard vector with both colours was rendered with one fillAndStroke
C6_Witness ==
    \E pk \in CompletedVectors :
        /\ BothColorsSet(OriginalItem(pk[1], pk[2]))
        /\ OriginalItem(pk[1], pk[2]).type = "polyline"
        /\ CountOp(CallsOfItem(pk[1], pk[2]), {"fillAndStroke"}) = 1

\* the fill colour is set at the paint decision: given, or made by the gradient
\* of an ellipse or rect
FillSet(vector) ==
    \/ Has(vector, "color") /\ vector.color # <<>>
    \/ vector.type \in {"ellipse", "rect"} /\ Has(vector, "linearGradient")

LineSet(vector) == Has(vector, "lineColor") /\ vector.lineColor # <<>>

\* the last n calls
LastCalls(calls, n) == SubSeq(calls, Len(calls) - n + 1, Len(calls))

\* C7: a standard vector ends with exactly one paint call: with the fill colour
\* (as resolved from a gradient or pattern) and the line colour set,
\* fillColor(fill, fillOpacity), strokeColor(lineColor, strokeOpacity),
\* fillAndStroke; with only the fill colour, fillColor, fill; otherwise
\* strokeColor(lineColor or 'black', strokeOpacity), stroke. An opacity is the
\* vector's own when given, 0 included, and 1 when not given.
C7_PaintDecision ==
    \A pk \in CompletedVectors :
        LET v == OriginalItem(pk[1], pk[2])
            calls == CallsOfItem(pk[1], pk[2])
            fo == IF Has(v, "fillOpacity") THEN v.fillOpacity ELSE 100
            so == IF Has(v, "strokeOpacity") THEN v.strokeOpacity ELSE 100
            plain == Has(v, "color") /\ Len(v.color) = 1 /\ ~(v.type \in {"ellipse", "rect"} /\ Has(v, "linearGradient"))
        IN ~IsExtended(v) =>
            /\ CountOp(calls, {"fill", "stroke", "fillAndStroke"}) = 1
            /\ IF FillSet(v) /\ LineSet(v)
               THEN /\ Len(calls) >= 3
                    /\ OpsOf(LastCalls(calls, 3)) = <<"fillColor", "strokeColor", "fillAndStroke">>
                    /\ calls[Len(calls) - 2].n = <<fo>>
                    /\ plain => calls[Len(calls) - 2].s = <<v.color>>
                    /\ calls[Len(calls) - 1].n = <<so>>
                    /\ calls[Len(calls) - 1].s = <<v.lineColor>>
               ELSE IF FillSet(v)
               THEN /\ Len(calls) >= 2
                    /\ OpsOf(LastCalls(calls, 2)) = <<"fillColor", "fill">>
                    /\ calls[Len(calls) - 1].n = <<fo>>
                    /\ plain => calls[Len(calls) - 1].s = <<v.color>>
                    /\ CountOp(calls, {"strokeColor"}) = 0
               ELSE /\ Len(calls) >= 2
                    /\ OpsOf(LastCalls(calls, 2)) = <<"strokeColor", "stroke">>
                    /\ calls[Len(calls) - 1].n = <<so>>
                    /\ calls[Len(calls) - 1].s = <<IF LineSet(v) THEN v.lineColor ELSE <<"black">>>>
                    /\ CountOp(calls, {"fillColor"}) = 0

\* a filled and stroked vector with fill opacity 0 was painted with opacity 0
C7_Witness ==
    \E pk \in CompletedVectors :
        LET v == OriginalItem(pk[1], pk[2])
            calls == CallsOfItem(pk[1], pk[2])
        IN /\ ~IsExtended(v)
           /\ FillSet(v) /\ LineSet(v)
           /\ Has(v, "fillOpacity") /\ v.fillOpacity = 0
           /\ calls[Len(calls) - 2].op = "fillColor"
           /\ calls[Len(calls) - 2].n = <<0>>

PathOps == {"moveTo", "lineTo", "closePath", "rect", "roundedRect", "ellipse", "path",
            "quadraticCurveTo", "bezierCurveTo"}

IsEmptyPolyline(vector) == vector.type = "polyline" /\ Len(vector.points) = 0

\* C8: a polyline without points gets no path-construction call.
C8_EmptyPolylineNoPath ==
    \A pk \in CompletedVectors :
        IsEmptyPolyline(OriginalItem(pk[1], pk[2]))
            => CountOp(CallsOfItem(pk[1], pk[2]), PathOps) = 0

\* a polyline without points, with the closePath flag, was rendered
C8_Witness ==
    \E pk \in CompletedVectors :
        /\ IsEmptyPolyline(OriginalItem(pk[1], pk[2]))
        /\ Has(OriginalItem(pk[1], pk[2]), "closePath")
        /\ Len(CallsOfItem(pk[1], pk[2])) > 0

\* C9 as stated: a polyline without points gets no Sink call at all.
C9_EmptyPolylineNoCall_Original ==
    \A pk \in CompletedVectors :
        IsEmptyPolyline(OriginalItem(pk[1], pk[2])) => CallsOfItem(pk[1], pk[2]) = <<>>

\* C9 amended: a polyline without points raises no error and gets no
\* path-construction and no gradient call, but it does get the style setters of
\* every standard vector (lineWidth, dash or undash, lineJoin, lineCap) and the
\* paint calls, and nothing else.
C9_EmptyPolylineStyleAndPaint ==
    /\ \A pk \in CompletedVectors :
          LET v == OriginalItem(pk[1], pk[2])
              ops == OpsOf(CallsOfItem(pk[1], pk[2]))
              style == <<"lineWidth", IF Has(v, "dash") THEN "dash" ELSE "undash", "lineJoin", "lineCap">>
          IN IsEmptyPolyline(v) =>
                ops = style \o (IF FillSet(v) /\ LineSet(v)
                                THEN <<"fillColor", "strokeColor", "fillAndStroke">>
                                ELSE IF FillSet(v) THEN <<"fillColor", "fill">>
                                ELSE <<"strokeColor", "stroke">>)
    /\ \A pk \in ItemIndexes :
          (TypeOfItem(pk[1], pk[2]) = "vector" /\ IsEmptyPolyline(OriginalItem(pk[1], pk[2])))
              => ~(pc = "thrown" /\ i = pk[1] /\ ii = pk[2])

\* a polyline without points was rendered and the pass went on to its end
C9_Witness ==
    /\ pc = "done"
    /\ \E pk \in CompletedVectors :
          /\ IsEmptyPolyline(OriginalItem(pk[1], pk[2]))
          /\ Len(CallsOfItem(pk[1], pk[2])) = 6

\* the completed line items: <<page, item>>
CompletedLines == {pk \in CompletedItems : TypeOfItem(pk[1], pk[2]) = "line"}

\* the text calls of a line, one per inline
TextCalls(p, k) == SelectSeq(CallsOfItem(p, k), LAMBDA c : c.op = "text")

\* the reference resolved last on inline j (1-based) of a line: the inline's
\* own, else the line's for the first inline
ResolvedRef(line, j) ==
    IF Has(line.inlines[j], "_pageNodeRef") THEN line.inlines[j]._pageNodeRef
    ELSE line._pageNodeRef

CarriesRef(line, j) ==
    Has(line.inlines[j], "_pageNodeRef") \/ (j = 1 /\ Has(line, "_pageNodeRef"))

\* the page numbers of the model's references, in decimal
DecimalOf(pageNumber) == IF pageNumber = 7 THEN <<"7">> ELSE <<"1", "2">>

\* C10: for an inline on which a page-number reference was resolved, with
\* oldWidth its width before and newWidth its remeasured width, the x of its
\* text call is lineX + originalInlineX + (oldWidth - newWidth) when aligned
\* right, + (oldWidth - newWidth) / 2 when centred, + 0 otherwise; its text is
\* the decimal page number and its width newWidth.
C10_ReferenceShift ==
    \A pk \in CompletedLines :
        LET before == OriginalItem(pk[1], pk[2])
            after == RenderedItem(pk[1], pk[2])
            lineX == IF Has(before, "x") THEN before.x ELSE 0
        IN \A j \in 1..Len(before.inlines) :
              CarriesRef(before, j) =>
                 LET old == before.inlines[j]
                     new == after.inlines[j]
                     digits == DecimalOf(ResolvedRef(before, j).positions[1].pageNumber)
                     newWidth == Len(digits) * (old.fontSize \div 2)
                                 + (IF Has(old, "characterSpacing")
                                    THEN old.characterSpacing * (Len(digits) - 1) ELSE 0)
                     delta == old.width - newWidth
                     align == IF Has(old, "alignment") THEN old.alignment ELSE <<>>
                     call == TextCalls(pk[1], pk[2])[j]
                 IN /\ new.text = digits
                    /\ new.width = newWidth
                    /\ call.s = <<digits>>
                    /\ call.o.textWidth = newWidth
                    /\ 2 * call.n[1] = 2 * (lineX + old.x)
                                       + (IF align = <<"right">> THEN 2 * delta
                                          ELSE IF align = <<"center">> THEN delta ELSE 0)

\* a centred and a right-aligned reference were resolved to page numbers narrower
\* or wider than their placeholders
C10_Witness ==
    \E pk \in CompletedLines :
        LET before == OriginalItem(pk[1], pk[2])
            after == RenderedItem(pk[1], pk[2])
        IN /\ Len(before.inlines) = 2
           /\ Has(before.inlines[1], "_pageNodeRef") /\ Has(before.inlines[2], "_pageNodeRef")
           /\ Has(before.inlines[1], "alignment") /\ before.inlines[1].alignment = <<"center">>
           /\ before.inlines[2].alignment = <<"right">>
           /\ after.inlines[1].width # before.inlines[1].width
           /\ after.inlines[1].x # before.inlines[1].x
           /\ after.inlines[2].x # before.inlines[2].x

----------------------------------------------------------------------------
(* C11: an unresolved page-number reference *)

\* the line's own reference, or the reference of one of its inlines, has no
\* recorded target position
LineRefUnresolved(line) == Has(line, "_pageNodeRef") /\ ~Has(line._pageNodeRef, "positions")

InlineRefUnresolved(line, j) ==
    Has(line.inlines[j], "_pageNodeRef") /\ ~Has(line.inlines[j]._pageNodeRef, "positions")

HasUnresolvedRef(line) ==
    LineRefUnresolved(line) \/ \E j \in 1..Len(line.inlines) : InlineRefUnresolved(line, j)

\* the number of inlines renderLine places before it meets the unresolved reference
InlinesBeforeUnresolved(line) ==
    IF LineRefUnresolved(line) THEN 0
    ELSE (CHOOSE j \in 1..Len(line.inlines) :
             InlineRefUnresolved(line, j) /\ \A h \in 1..(j - 1) : ~InlineRefUnresolved(line, h)) - 1

\* the number of items that precede item k of page p in document order
RECURSIVE ItemsBefore(_, _)
ItemsBefore(p, k) == IF p = 0 THEN k ELSE Len(pages[p].items) + ItemsBefore(p - 1, k)

\* C11: a line that is reached and carries (itself or in an inline) a reference
\* without a target position makes the pass throw; once a line has thrown the pass
\* takes no further step, the trace holds no call of a later inline, item or
\* page and no watermark of the failing page, and the progress callback has
\* been invoked for the items before the failing one only.
C11_UnresolvedAborts ==
    /\ \A pk \in CompletedItems :
          TypeOfItem(pk[1], pk[2]) = "line" => ~HasUnresolvedRef(OriginalItem(pk[1], pk[2]))
    /\ (pc = "thrown" /\ TypeOfItem(i, ii) = "line") =>
          /\ HasUnresolvedRef(OriginalItem(i, ii))
          /\ Len(TextCalls(i, ii)) = InlinesBeforeUnresolved(OriginalItem(i, ii))
          /\ CountOp(CallsOfItem(i, ii), {"textDecorator.drawDecorations"}) = 0
          /\ \A a \in 1..Len(trace) :
                \/ trace[a].page < i
                \/ trace[a].page = i /\ trace[a].src \in {"orientation", "addPage"}
                \/ trace[a].page = i /\ trace[a].src = "item" /\ trace[a].item <= ii
          /\ renderedItems = ItemsBefore(i, ii)
          /\ Len(progress) = (IF progressSupplied THEN ItemsBefore(i, ii) ELSE 0)
          /\ ~ENABLED Next

\* the pass threw on the first page of a watermarked two-page document, after a
\* completed item and before another item, the callback invoked once
C11_Witness ==
    /\ pc = "thrown"
    /\ Len(pages) = 2 /\ i = 0 /\ ii = 1
    /\ Len(pages[1].items) = 3
    /\ Len(pages[2].items) > 0
    /\ Has(pages[1], "watermark")
    /\ Len(progress) = 1


----------------------------------------------------------------------------
(* C12: superscript and subscript offsets *)

\* the y of the baseline without superscript / subscript shift, from the line's
\* metrics: lineY + lineHeight - ascender / 1000 * fontSize - descent
NominalBaseline(line, inline) ==
    (IF Has(line, "y") THEN line.y ELSE 0)
    + line.height - (inline.font.ascender * inline.fontSize) \div 1000
    - (line.height - line.ascenderHeight)

IsSup(inline) == Has(inline, "sup") /\ inline.sup

IsSub(inline) == Has(inline, "sub") /\ inline.sub

\* C12: the y of every inline's text call is the nominal baseline y, minus
\* 0.75 * fontSize when the inline is superscript, plus 0.35 * fontSize when it
\* is subscript, both when both flags are set, and the baseline itself when
\* neither is; at fontSize 10 (1000 hundredths) the shifts are 7.5 and 3.5.
C12_SupSubOffset ==
    \A pk \in CompletedLines :
        LET line == OriginalItem(pk[1], pk[2])
            calls == TextCalls(pk[1], pk[2])
        IN /\ Len(calls) = Len(line.inlines)
           /\ \A j \in 1..Len(line.inlines) :
                 LET inline == line.inlines[j]
                 IN /\ 100 * calls[j].n[2] =
                          100 * NominalBaseline(line, inline)
                          - (IF IsSup(inline) THEN 75 * inline.fontSize ELSE 0)
                          + (IF IsSub(inline) THEN 35 * inline.fontSize ELSE 0)
                    /\ (inline.fontSize = 1000 /\ IsSup(inline) /\ ~IsSub(inline))
                          => calls[j].n[2] = NominalBaseline(line, inline) - 750
                    /\ (inline.fontSize = 1000 /\ IsSub(inline) /\ ~IsSup(inline))
                          => calls[j].n[2] = NominalBaseline(line, inline) + 350

\* a line was rendered whose first inline is both superscript and subscript at
\* fontSize 10 and whose second inline is neither: the first is placed 4 units
\* above the baseline the second is placed on
C12_Witness ==
    \E pk \in CompletedLines :
        LET line == OriginalItem(pk[1], pk[2])
            calls == TextCalls(pk[1], pk[2])
        IN /\ Len(line.inlines) = 2
           /\ IsSup(line.inlines[1]) /\ IsSub(line.inlines[1])
           /\ line.inlines[1].fontSize = 1000
           /\ calls[1].n[2] = calls[2].n[2] - 400

----------------------------------------------------------------------------
(* C13: rendering the same pages twice *)

IsPrefix(s, t) == Len(s) <= Len(t) /\ SubSeq(t, 1, Len(s)) = s

----------------------------------------------------------------------------
(* C14: what a render pass writes *)

\* the record r with the fields of F left out
Without(r, F) == [f \in (DOMAIN r) \ F |-> r[f]]

\* inline j of the line carries a reference, or is the first inline of a line
\* that carries one
InlineMayBeWritten(line, j) ==
    Has(line.inlines[j], "_pageNodeRef") \/ (j = 1 /\ Has(line, "_pageNodeRef"))

\* the line differs from the original at most in text, width and x of inlines
\* with a reference
LineWrittenInRefsOnly(before, after) ==
    /\ Without(after, {"inlines"}) = Without(before, {"inlines"})
    /\ Len(after.inlines) = Len(before.inlines)
    /\ \A j \in 1..Len(before.inlines) :
          IF InlineMayBeWritten(before, j)
          THEN Without(after.inlines[j], {"text", "width", "x"})
                  = Without(before.inlines[j], {"text", "width", "x"})
          ELSE after.inlines[j] = before.inlines[j]

\* C14 as stated: at every moment of a render pass every page, item, vector,
\* image and watermark is as the layout produced it, and a line differs from
\* the original at most in the text, width and x of inlines that carry, or
\* whose line carries, a page-number reference.
C14_OnlyReferenceInlinesWritten ==
    pc # "start" =>
        /\ Len(pages) <= Len(layoutPages)
        /\ \A p \in 1..Len(pages) :
              /\ Without(pages[p], {"items"}) = Without(layoutPages[p], {"items"})
              /\ Len(pages[p].items) = Len(layoutPages[p].items)
              /\ \A k \in 1..Len(pages[p].items) :
                    /\ pages[p].items[k].type = layoutPages[p].items[k].type
                    /\ IF pages[p].items[k].type = "line"
                       THEN LineWrittenInRefsOnly(layoutPages[p].items[k].item, pages[p].items[k].item)
                       ELSE pages[p].items[k].item = layoutPages[p].items[k].item

----------------------------------------------------------------------------
(* C15: unrecognized tags and types *)

RecognizedTags == {"vector", "line", "image", "svg", "beginClip", "endClip"}

RecognizedShapes == {"ellipse", "rect", "line", "polyline", "path"}

RecognizedInstructions == XTypes \ {"x-unknown"}

\* an item of an unrecognized tag, or a vector of an unrecognized type
IsUnrecognized(p, k) ==
    \/ TypeOfItem(p, k) \notin RecognizedTags
    \/ /\ TypeOfItem(p, k) = "vector"
       /\ OriginalItem(p, k).type \notin (RecognizedShapes \cup RecognizedInstructions)

\* the pass did not stop at item k of page p
NotThrownAt(p, k) == ~(pc = "thrown" /\ i = p /\ ii = k)

\* C15 as stated: an item of an unrecognized tag and a vector of an
\* unrecognized type raise no error and cause no Sink call.
C15_UnrecognizedIgnored_Original ==
    /\ \A pk \in CompletedItems : IsUnrecognized(pk[1], pk[2]) => CallsOfItem(pk[1], pk[2]) = <<>>
    /\ \A pk \in ItemIndexes : IsUnrecognized(pk[1], pk[2]) => NotThrownAt(pk[1], pk[2])

\* C15 amended: an item of an unrecognized tag, and a vector whose type starts
\* with 'x-' without being a known instruction, raise no error and cause no
\* Sink call; a vector whose type neither starts with 'x-' nor is a known shape
\* raises no error and builds no path, but gets the style setters and the paint
\* calls of every standard vector; in each case the next item is rendered.
C15_UnrecognizedTolerated ==
    /\ \A pk \in CompletedItems :
          LET ops == OpsOf(CallsOfItem(pk[1], pk[2]))
              v == OriginalItem(pk[1], pk[2])
          IN /\ TypeOfItem(pk[1], pk[2]) \notin RecognizedTags => ops = <<>>
             /\ (TypeOfItem(pk[1], pk[2]) = "vector" /\ IsUnrecognized(pk[1], pk[2])) =>
                   IF IsExtended(v) THEN ops = <<>>
                   ELSE ops = <<"lineWidth", IF Has(v, "dash") THEN "dash" ELSE "undash",
                                "lineJoin", "lineCap">>
                              \o (IF FillSet(v) /\ LineSet(v)
                                  THEN <<"fillColor", "strokeColor", "fillAndStroke">>
                                  ELSE IF FillSet(v) THEN <<"fillColor", "fill">>
                                  ELSE <<"strokeColor", "stroke">>)
    /\ \A pk \in ItemIndexes : IsUnrecognized(pk[1], pk[2]) => NotThrownAt(pk[1], pk[2])
    /\ \A pk \in ItemIndexes :
          (IsUnrecognized(pk[1], pk[2]) /\ pc = "items" /\ i = pk[1] /\ ii = pk[2]) => ENABLED RenderItem

\* an item of an unrecognized tag was passed over between two rendered vectors,
\* and the pass ended
C15_Witness ==
    /\ pc = "done"
    /\ \E p \in 0..(Len(pages) - 1) :
          /\ Len(pages[p + 1].items) = 3
          /\ TypeOfItem(p, 0) = "vector" /\ TypeOfItem(p, 1) = "qr" /\ TypeOfItem(p, 2) = "vector"
          /\ CallsOfItem(p, 1) = <<>>
          /\ CallsOfItem(p, 2) # <<>>

----------------------------------------------------------------------------
(* C16: the annotations of an image *)

CompletedImages == {pk \in CompletedItems : TypeOfItem(pk[1], pk[2]) = "image"}

\* the placement mode renderImage chooses
ImageMode(image) ==
    IF Has(image, "xImage") /\ image.xImage THEN "extended"
    ELSE IF Has(image, "cover") THEN "cover"
    ELSE "plain"

LinkOps == {"link", "ref", "annotate", "goTo"}

\* the calls after position a
CallsAfter(calls, a) == SubSeq(calls, a + 1, Len(calls))

\* C16: in each placement mode the image is placed once, no annotation call
\* precedes the placement, and after it come: one link call (with the image's
\* box and URL) iff image.link is set, then a GoTo ref and a Link annotation
\* iff image.linkToPage is set, then one goTo call iff image.linkToDestination
\* is set, each whatever the other two are.
C16_ImageAnnotations ==
    \A pk \in CompletedImages :
        LET image == OriginalItem(pk[1], pk[2])
            calls == CallsOfItem(pk[1], pk[2])
            box == <<image.x, image.y, image._width, image._height>>
        IN /\ CountOp(calls, {"image"}) = 1
           /\ LET a == CHOOSE b \in 1..Len(calls) : calls[b].op = "image"
                  after == SelectSeq(CallsAfter(calls, a), LAMBDA c : c.op \in LinkOps)
                  hasLink == Has(image, "link")
                  hasPage == Has(image, "linkToPage")
                  hasDest == Has(image, "linkToDestination")
              IN /\ CountOp(SubSeq(calls, 1, a), LinkOps) = 0
                 /\ OpsOf(after) = (IF hasLink THEN <<"link">> ELSE <<>>)
                                   \o (IF hasPage THEN <<"ref", "annotate">> ELSE <<>>)
                                   \o (IF hasDest THEN <<"goTo">> ELSE <<>>)
                 /\ \A b \in 1..Len(after) :
                       /\ after[b].op = "link" => after[b].n = box /\ after[b].s = <<image.link>>
                       /\ after[b].op = "ref" => after[b].n = <<image.linkToPage, 0, 0>>
                       /\ after[b].op = "annotate" =>
                             after[b].n = box /\ after[b].o.Dest = image.linkToPage - 1
                       /\ after[b].op = "goTo" =>
                             after[b].n = box /\ after[b].s = <<image.linkToDestination>>

\* an image in extended mode carrying all three targets got all four calls
\* after its placement
C16_Witness ==
    \E pk \in CompletedImages :
        LET image == OriginalItem(pk[1], pk[2])
            calls == CallsOfItem(pk[1], pk[2])
        IN /\ ImageMode(image) = "extended"
           /\ Has(image, "link") /\ Has(image, "linkToPage") /\ Has(image, "linkToDestination")
           /\ OpsOf(LastCalls(calls, 5)) = <<"restore", "link", "ref", "annotate", "goTo">>

----------------------------------------------------------------------------
(* C17: docDefinition.maxPagesNumber *)

\* the least of two numbers
Min(a, b) == IF a < b THEN a ELSE b

\* page p of the rendered list is page p of the layout result
SamePage(p) ==
    /\ Without(pages[p], {"items"}) = Without(layoutPages[p], {"items"})
    /\ Len(pages[p].items) = Len(layoutPages[p].items)

\* C17 as stated: once createPdfKitDocument has called renderPages, the page
\* list rendered is the whole layout result when maxPagesNumber is absent, and
\* for a number n >= 0 (0 included) it holds at most n pages, namely the first
\* n pages of the layout result in their order.
C17_AtMostMaxPages ==
    pc # "start" =>
        /\ \A p \in 1..Len(pages) : p <= Len(layoutPages) /\ SamePage(p)
        /\ IF maxPagesNumber = <<>>
           THEN Len(pages) = Len(layoutPages)
           ELSE /\ Len(pages) * maxPagesNumber[2] <= maxPagesNumber[1]
                /\ Len(pages) = Min(maxPagesNumber[1] \div maxPagesNumber[2], Len(layoutPages))

----------------------------------------------------------------------------
(* C18: computeDocumentLayout *)

\* C18 as stated: computeDocumentLayout never raises for a document whose
\* layout succeeds, and when it has returned no Sink page has been created and
\* no drawing call issued.
C18_LayoutWithoutRendering ==
    /\ pc # "layoutThrown"
    /\ pc = "layoutReturned" => trace = <<>> /\ pages = <<>>

----------------------------------------------------------------------------
(* C19: the depth of the Sink's graphics-state stack *)

\* the change of depth a sequence of calls makes: save = +1, restore = -1
Depth(calls) == CountOp(calls, {"save"}) - CountOp(calls, {"restore"})

\* no prefix of the calls takes the depth below its value on entry
NeverBelowEntry(calls) == \A a \in 0..Len(calls) : Depth(SubSeq(calls, 1, a)) >= 0

\* the bracket an item opens (+1) or closes (-1)
BracketOf(entry) ==
    IF entry.type = "beginClip" \/ (entry.type = "vector" /\ entry.item.type = "x-saveContext") THEN 1
    ELSE IF entry.type = "endClip" \/ (entry.type = "vector" /\ entry.item.type = "x-restoreContext")
    THEN -1
    ELSE 0

RECURSIVE BracketSum(_, _)
BracketSum(items, a) == IF a = 0 THEN 0 ELSE BracketSum(items, a - 1) + BracketOf(items[a])

\* the bracket items of the page are properly nested
ProperlyNested(items) ==
    /\ BracketSum(items, Len(items)) = 0
    /\ \A a \in 0..Len(items) : BracketSum(items, a) >= 0

\* every call of page p: its items' calls and its watermark's
AllCallsOfPage(p) == SelectSeq(trace, LAMBDA c : c.page = p /\ c.src \in {"item", "watermark"})

\* page p has been rendered to its end
PageEnded(p) == p < i \/ pc = "done"

\* C19: a standard vector, a line, an image (extended, cover or plain) and a
\* watermark leave the depth as they found it and never take it below that;
\* beginClip issues save, the raw rectangle path, clip and so raises the depth
\* by 1; endClip issues restore and lowers it by 1; and a page whose bracket
\* items are properly nested ends at the depth it started at.
C19_BalancedBrackets ==
    /\ \A pk \in CompletedItems :
          LET calls == CallsOfItem(pk[1], pk[2])
              ty == TypeOfItem(pk[1], pk[2])
          IN /\ (ty \in {"line", "image"} \/ (ty = "vector" /\ ~IsExtended(OriginalItem(pk[1], pk[2]))))
                   => Depth(calls) = 0 /\ NeverBelowEntry(calls)
             /\ ty = "beginClip" => OpsOf(calls) = <<"save", "addContent", "clip">> /\ Depth(calls) = 1
             /\ ty = "endClip" => OpsOf(calls) = <<"restore">> /\ Depth(calls) = -1
    /\ \A p \in 0..(Len(pages) - 1) :
          /\ Depth(CallsOfPage("watermark", p)) = 0 /\ NeverBelowEntry(CallsOfPage("watermark", p))
          /\ (PageEnded(p) /\ ProperlyNested(pages[p + 1].items))
                => Depth(AllCallsOfPage(p)) = 0 /\ NeverBelowEntry(AllCallsOfPage(p))

\* a watermarked page ended whose items are a clip bracket around a cover image
C19_Witness ==
    /\ pc = "done"
    /\ Len(pages) = 1
    /\ Has(pages[1], "watermark")
    /\ Len(pages[1].items) = 3
    /\ TypeOfItem(0, 0) = "beginClip" /\ TypeOfItem(0, 1) = "image" /\ TypeOfItem(0, 2) = "endClip"
    /\ CountOp(AllCallsOfPage(0), {"save"}) = 3
    /\ Depth(AllCallsOfPage(0)) = 0

----------------------------------------------------------------------------
(* C20: the path of a polyline *)

\* the path-construction calls among the calls, as <<op, numbers>>
PathOf(calls) ==
    LET sel == SelectSeq(calls, LAMBDA c : c.op \in PathOps)
    IN [a \in 1..Len(sel) |-> <<sel[a].op, sel[a].n>>]

\* moveTo the first point, lineTo every further point in order
OpenPath(points) ==
    [a \in 1..Len(points) |-> <<IF a = 1 THEN "moveTo" ELSE "lineTo", <<points[a].x, points[a].y>>>>]

ClosePathFlag(vector) == Has(vector, "closePath") /\ vector.closePath

EndsCoincide(points) ==
    points[1].x = points[Len(points)].x /\ points[1].y = points[Len(points)].y

IsPolylineWithPoints(vector) == vector.type = "polyline" /\ Len(vector.points) >= 1

\* C20 as stated: a polyline of one or more points gets moveTo, the lineTos,
\* and then closePath iff its closePath flag is set or its first and last
\* points have equal coordinates.
C20_PolylinePath_Original ==
    \A pk \in CompletedVectors :
        LET v == OriginalItem(pk[1], pk[2])
        IN IsPolylineWithPoints(v) =>
              PathOf(CallsOfItem(pk[1], pk[2]))
                 = OpenPath(v.points)
                   \o (IF ClosePathFlag(v) \/ EndsCoincide(v.points)
                       THEN <<<<"closePath", <<>>>>>> ELSE <<>>)

\* C20 amended: a polyline of two or more points gets moveTo, the lineTos, and
\* then closePath iff its closePath flag is set or its first and last points
\* have equal coordinates; a polyline of exactly one point gets the moveTo
\* alone and never closePath, whatever its flag.
C20_PolylinePath ==
    \A pk \in CompletedVectors :
        LET v == OriginalItem(pk[1], pk[2])
        IN IsPolylineWithPoints(v) =>
              PathOf(CallsOfItem(pk[1], pk[2]))
                 = OpenPath(v.points)
                   \o (IF Len(v.points) >= 2 /\ (ClosePathFlag(v) \/ EndsCoincide(v.points))
                       THEN <<<<"closePath", <<>>>>>> ELSE <<>>)

\* a polyline of three points without the flag, ending where it starts, was
\* closed
C20_Witness ==
    \E pk \in CompletedVectors :
        LET v == OriginalItem(pk[1], pk[2])
        IN /\ IsPolylineWithPoints(v)
           /\ Len(v.points) = 3
           /\ ~ClosePathFlag(v)
           /\ v.points[1] # v.points[2]
           /\ EndsCoincide(v.points)
           /\ CountOp(CallsOfItem(pk[1], pk[2]), {"closePath"}) = 1

----------------------------------------------------------------------------
(* C21: extended instructions issue their own calls only *)

\* the Sink operations each extended instruction names
NamedOps(type) ==
    CASE type = "x-saveContext" -> {"save"}
      [] type = "x-restoreContext" -> {"restore"}
      [] type = "x-rotateContext" -> {"rotate"}
      [] type = "x-translateContext" -> {"translate"}
      [] type = "x-scaleContext" -> {"scale"}
      [] type = "x-lineStyle" -> {"lineWidth", "dash", "undash"}
      [] type = "x-strokeColor" -> {"strokeColor"}
      [] type = "x-fillColor" -> {"fillColor"}
      [] type = "x-strokePath" -> {"stroke"}
      [] type = "x-fillPath" -> {"fill"}
      [] type = "x-fillAndStrokePath" -> {"fillAndStroke"}
      [] type = "x-moveTo" -> {"moveTo"}
      [] type = "x-lineTo" -> {"lineTo"}
      [] type = "x-line" -> {"moveTo", "lineTo"}
      [] type = "x-rect" -> {"rect"}
      [] type = "x-ellipse" -> {"ellipse"}
      [] type = "x-quadraticCurve" -> {"moveTo", "quadraticCurveTo"}
      [] type = "x-bezierCurve" -> {"moveTo", "bezierCurveTo"}
      [] type = "x-closePath" -> {"closePath"}
      [] type = "x-clipToRect" -> {"rect", "clip"}
      [] OTHER -> {}

PaintOps == {"fill", "stroke", "fillAndStroke"}

PaintInstructions == {"x-strokePath", "x-fillPath", "x-fillAndStrokePath"}

\* the numeric parameters of the extended instructions
NumberParams ==
    {"angle", "x", "y", "scale", "lineWidth", "strokeOpacity", "fillOpacity", "x1", "y1",
     "x2", "y2", "width", "height", "cx", "cy", "rx", "ry", "cpx", "cpy", "cpx1", "cpy1",
     "cpx2", "cpy2"}

\* how many numeric parameters the vector gives, origin and dash counted by
\* their own fields
GivenNumbers(vector) ==
    Cardinality(DOMAIN vector \cap NumberParams)
    + (IF Has(vector, "origin") THEN Cardinality(DOMAIN vector.origin) ELSE 0)
    + (IF Has(vector, "dash") THEN Cardinality(DOMAIN vector.dash) ELSE 0)

\* how many numbers the calls pass to the Sink
PassedNumbers(calls) ==
    Cardinality({ab \in (1..Len(calls)) \X (1..6) : ab[2] <= Len(calls[ab[1]].n)})

\* the numbers passed beyond those the vector gives: values the code made up
DefaultedNumbers(vector, calls) ==
    IF PassedNumbers(calls) > GivenNumbers(vector)
    THEN PassedNumbers(calls) - GivenNumbers(vector) ELSE 0

LineWidthMissing(vector) == vector.type = "x-lineStyle" /\ ~Has(vector, "lineWidth")

DashSpaceMissing(vector) ==
    vector.type = "x-lineStyle" /\ Has(vector, "dash") /\ ~Has(vector.dash, "space")

\* only the instruction's own operations, no join or cap, no paint outside the
\* three paint instructions
OwnCallsOnly(vector, calls) ==
    /\ \A a \in 1..Len(calls) : calls[a].op \in NamedOps(vector.type)
    /\ CountOp(calls, {"lineJoin", "lineCap"}) = 0
    /\ vector.type \notin PaintInstructions => CountOp(calls, PaintOps) = 0

\* C21 as stated: a vector whose type starts with 'x-' gets only the calls of
\* its instruction, never lineJoin or lineCap, no paint call unless it is
\* x-strokePath, x-fillPath or x-fillAndStrokePath, and no value made up for a
\* missing parameter other than line width 1 in x-lineStyle.
C21_ExtendedOwnCallsOnly_Original ==
    \A pk \in CompletedVectors :
        LET v == OriginalItem(pk[1], pk[2])
            calls == CallsOfItem(pk[1], pk[2])
        IN IsExtended(v) =>
              /\ OwnCallsOnly(v, calls)
              /\ DefaultedNumbers(v, calls) <= (IF LineWidthMissing(v) THEN 1 ELSE 0)

\* C21 amended: a vector whose type starts with 'x-' gets only the calls of
\* its instruction, never lineJoin or lineCap, no paint call unless it is
\* x-strokePath, x-fillPath or x-fillAndStrokePath, and no value made up for a
\* missing parameter other than, in x-lineStyle, line width 1 and a dash space
\* equal to the dash length.
C21_ExtendedOwnCallsOnly ==
    \A pk \in CompletedVectors :
        LET v == OriginalItem(pk[1], pk[2])
            calls == CallsOfItem(pk[1], pk[2])
        IN IsExtended(v) =>
              /\ OwnCallsOnly(v, calls)
              /\ DefaultedNumbers(v, calls)
                    <= (IF LineWidthMissing(v) THEN 1 ELSE 0) + (IF DashSpaceMissing(v) THEN 1 ELSE 0)
              /\ (v.type = "x-lineStyle" /\ Has(v, "dash"))
                    => \E a \in 1..Len(calls) :
                          /\ calls[a].op = "dash"
                          /\ calls[a].n[2] = (IF TruthyNum(v.dash, "space") THEN v.dash.space
                                              ELSE v.dash.length)

\* an x-lineStyle carrying the standard paint fields, without line width and
\* with a dash without space, set line width 1 and the dash, and nothing else
C21_Witness ==
    \E pk \in CompletedVectors :
        LET v == OriginalItem(pk[1], pk[2])
            calls == CallsOfItem(pk[1], pk[2])
        IN /\ v.type = "x-lineStyle"
           /\ BothColorsSet(v)
           /\ LineWidthMissing(v) /\ DashSpaceMissing(v)
           /\ OpsOf(calls) = <<"lineWidth", "dash">>
           /\ calls[1].n = <<100>>
           /\ calls[2].n = <<v.dash.length, v.dash.length>>

----------------------------------------------------------------------------
(* C22: background, inlines, decorations *)

\* the origin renderPages hands to renderLine, after `x || 0` and `y || 0`
LineOrigin(line) == <<NumOr(line, "x", 0), NumOr(line, "y", 0)>>

\* the positions in calls of the calls with the operation op
PositionsOf(calls, op) == {a \in 1..Len(calls) : calls[a].op = op}

\* C22: for every line rendered to its end, drawBackground is the first call
\* and drawDecorations the last, each made once; between them there is one
\* text call per inline, placing the inlines' texts in inline order; and
\* drawDecorations gets the line's own origin (x, y), whatever superscript or
\* subscript shift the text calls got.
C22_BackgroundInlinesDecorations ==
    \A pk \in CompletedLines :
        LET line == OriginalItem(pk[1], pk[2])
            rendered == RenderedItem(pk[1], pk[2])
            calls == CallsOfItem(pk[1], pk[2])
            texts == TextCalls(pk[1], pk[2])
        IN /\ PositionsOf(calls, "textDecorator.drawBackground") = {1}
           /\ PositionsOf(calls, "textDecorator.drawDecorations") = {Len(calls)}
           /\ Len(calls) > 1
           /\ calls[1].n = LineOrigin(line)
           /\ calls[Len(calls)].n = LineOrigin(line)
           /\ Len(texts) = Len(line.inlines)
           /\ \A a \in 1..Len(texts) :
                 /\ texts[a].s = <<rendered.inlines[a].text>>
                 /\ texts[a].n[1] = LineOrigin(line)[1] + rendered.inlines[a].x

\* a line of two inlines, the first superscript, was rendered: its first text
\* sits above the nominal baseline, its second on it, and the decorations
\* still got the line's origin
C22_Witness ==
    \E pk \in CompletedLines :
        LET line == OriginalItem(pk[1], pk[2])
            calls == CallsOfItem(pk[1], pk[2])
            texts == TextCalls(pk[1], pk[2])
        IN /\ Len(line.inlines) = 2
           /\ IsSup(line.inlines[1]) /\ ~IsSub(line.inlines[1])
           /\ Len(texts) = 2
           /\ texts[1].s # texts[2].s
           /\ texts[1].n[2] < texts[2].n[2]
           /\ calls[Len(calls)].op = "textDecorator.drawDecorations"
           /\ calls[Len(calls)].n = <<4000, 7000>>

----------------------------------------------------------------------------
(* C23: opacity, fill colour and options of each inline's text call *)

\* the position in calls of the a-th text call, 0 for a = 0
RECURSIVE TextPosition(_, _)
TextPosition(calls, a) ==
    IF a = 0 THEN 0
    ELSE CHOOSE b \in 1..Len(calls) :
            /\ b > TextPosition(calls, a - 1)
            /\ calls[b].op = "text"
            /\ \A c \in (TextPosition(calls, a - 1) + 1)..(b - 1) : calls[c].op # "text"

\* the calls made for inline a up to and without its text call
BeforeText(calls, a) ==
    SubSeq(calls, TextPosition(calls, a - 1) + 1, TextPosition(calls, a) - 1)

OwnOpacity(inline) == IF Has(inline, "opacity") THEN inline.opacity ELSE 100

OwnColor(inline) ==
    IF Has(inline, "color") /\ inline.color # <<>> THEN inline.color ELSE <<"black">>

CarriesId(line) == Has(line, "id") /\ line.id # <<>>

\* C23: for every inline of every line rendered to its end, the calls before
\* the inline's text call set the opacity once, to the inline's own numeric
\* opacity (0 included) or else 1, and the fill colour once, to the inline's
\* colour or else 'black'; the text call carries lineBreak: false; and it
\* carries a destination, the line's id, exactly when the inline is the first
\* of a line that carries an id.
C23_InlineStateBeforeText ==
    \A pk \in CompletedLines :
        LET line == OriginalItem(pk[1], pk[2])
            calls == CallsOfItem(pk[1], pk[2])
        IN \A a \in 1..Len(line.inlines) :
              LET before == BeforeText(calls, a)
                  text == calls[TextPosition(calls, a)]
                  opacities == SelectSeq(before, LAMBDA c : c.op = "opacity")
                  fills == SelectSeq(before, LAMBDA c : c.op = "fill")
              IN /\ Len(opacities) = 1 /\ opacities[1].n = <<OwnOpacity(line.inlines[a])>>
                 /\ Len(fills) = 1 /\ fills[1].s = <<OwnColor(line.inlines[a])>>
                 /\ Has(text.o, "lineBreak") /\ text.o.lineBreak = FALSE
                 /\ Has(text.o, "destination") <=> (a = 1 /\ CarriesId(line))
                 /\ Has(text.o, "destination") => text.o.destination = line.id

\* a line with an id and two inlines was rendered, its first inline blue with
\* opacity 0: opacity 0 and blue were set before the first text, which alone
\* carries the destination
C23_Witness ==
    \E pk \in CompletedLines :
        LET line == OriginalItem(pk[1], pk[2])
            calls == CallsOfItem(pk[1], pk[2])
        IN /\ CarriesId(line)
           /\ Len(line.inlines) = 2
           /\ Has(line.inlines[1], "opacity") /\ line.inlines[1].opacity = 0
           /\ Has(line.inlines[1], "color")
           /\ Len(TextCalls(pk[1], pk[2])) = 2
           /\ BeforeText(calls, 1)[2].n = <<0>>
           /\ BeforeText(calls, 1)[3].s = <<<<"blue">>>>
           /\ BeforeText(calls, 2)[1].n = <<100>>
           /\ Has(calls[TextPosition(calls, 1)].o, "destination")
           /\ ~Has(calls[TextPosition(calls, 2)].o, "destination")

----------------------------------------------------------------------------
(* C24: the trace runs page by page, item by item *)

\* the Sink calls renderPages makes: the trace without the patterns created
\* before it and without the writes to pdfKitDoc.options
PassCalls == SelectSeq(trace, LAMBDA c : c.src \in {"addPage", "item", "watermark"})

\* where a call stands within its page: the addPage, then item 0, 1, ..., then
\* the watermark
PlaceInPage(c) ==
    CASE c.src = "addPage" -> -1
      [] c.src = "item" -> c.item
      [] c.src = "watermark" -> MaxItems + 1

\* C24: the Sink calls of a render pass start with the addPage for page 0;
\* each further addPage is the one for the next page, and every other call is
\* derived from the page of the call before it, so that the calls of page i
\* stand between the addPage for page i and the addPage for page i + 1;
\* within a page the calls of item k stand before those of every item j > k
\* and the watermark's calls after all of them.
C24_PageByPageItemByItem ==
    LET calls == PassCalls
    IN /\ calls # <<>> => (calls[1].op = "addPage" /\ calls[1].page = 0)
       /\ \A a \in 1..Len(calls) : calls[a].op = "addPage" <=> calls[a].src = "addPage"
       /\ \A a \in 2..Len(calls) :
             IF calls[a].op = "addPage"
             THEN calls[a].page = calls[a - 1].page + 1
             ELSE /\ calls[a].page = calls[a - 1].page
                  /\ PlaceInPage(calls[a - 1]) <= PlaceInPage(calls[a])
       /\ pc \in {"pages", "items", "thrown", "done"} => calls # <<>>

\* a pass over two pages is over: the second page's addPage stands after the
\* first page's watermark and before the second page's items, and on the
\* first page item 0, item 1 and the watermark made calls in that order
C24_Witness ==
    /\ pc = "done"
    /\ Len(pages) = 2
    /\ CallsOfItem(0, 0) # <<>> /\ CallsOfItem(0, 1) # <<>> /\ CallsOfItem(1, 0) # <<>>
    /\ \E a, b, c, d, e \in 1..Len(PassCalls) :
          /\ a < b /\ b < c /\ c < d /\ d < e
          /\ PassCalls[a].src = "item" /\ PassCalls[a].page = 0 /\ PassCalls[a].item = 0
          /\ PassCalls[b].src = "item" /\ PassCalls[b].page = 0 /\ PassCalls[b].item = 1
          /\ PassCalls[c].src = "watermark" /\ PassCalls[c].page = 0
          /\ PassCalls[d].op = "addPage" /\ PassCalls[d].page = 1
          /\ PassCalls[e].src = "item" /\ PassCalls[e].page = 1

----------------------------------------------------------------------------
(* C25: linear gradients of ellipses and rects *)

\* the offset handed to gradient.stop, kept as the fraction <<i, length - 1>>,
\* is a number: i * (1 / 0) is NaN for i = 0
IsNumberOffset(f) == f[2] # 0

\* the offset is the number num / den
OffsetIs(f, num, den) == IsNumberOffset(f) /\ f[1] * den = num * f[2]

OffsetInUnitInterval(f) == IsNumberOffset(f) /\ 0 <= f[1] /\ f[1] <= f[2]

\* the horizontal span of the shape
GradientSpan(vector) ==
    IF vector.type = "ellipse"
    THEN <<vector.x - vector.r1, vector.y, vector.x + vector.r1, vector.y>>
    ELSE <<vector.x, vector.y, vector.x + vector.w, vector.y>>

GradientCalls(calls) == SelectSeq(calls, LAMBDA c : c.op = "linearGradient")

StopCalls(calls) == SelectSeq(calls, LAMBDA c : c.op = "gradient.stop")

\* C25: an ellipse or rect with a linear-gradient list of n >= 1 colours gets
\* one horizontal gradient over its width, n stops in list order, stop i
\* (0-based) at offset i / (n - 1), the first at 0 and every offset within
\* [0, 1], and the gradient as its fill colour; a line, polyline or path with
\* a linear-gradient list gets no gradient.
C25_GradientStops ==
    \A pk \in CompletedVectors :
        LET v == OriginalItem(pk[1], pk[2])
            calls == CallsOfItem(pk[1], pk[2])
            stops == StopCalls(calls)
        IN /\ (v.type \in {"ellipse", "rect"} /\ Has(v, "linearGradient") /\ Len(v.linearGradient) >= 1)
                => /\ Len(GradientCalls(calls)) = 1
                   /\ GradientCalls(calls)[1].n = GradientSpan(v)
                   /\ Len(stops) = Len(v.linearGradient)
                   /\ \A k \in 1..Len(stops) :
                         /\ stops[k].s = <<v.linearGradient[k]>>
                         /\ OffsetInUnitInterval(stops[k].n)
                         /\ IF k = 1 THEN OffsetIs(stops[k].n, 0, 1)
                            ELSE OffsetIs(stops[k].n, k - 1, Len(v.linearGradient) - 1)
                   /\ \E a \in 1..Len(calls) :
                         calls[a].op = "fillColor" /\ calls[a].s = <<<<"#gradient">>>>
           /\ (v.type \in {"line", "polyline", "path"} /\ Has(v, "linearGradient"))
                => Len(GradientCalls(calls)) = 0 /\ Len(stops) = 0

\* the same with the list of one colour set aside
C25_GradientStopsFromTwoColours ==
    \A pk \in CompletedVectors :
        LET v == OriginalItem(pk[1], pk[2])
            calls == CallsOfItem(pk[1], pk[2])
            stops == StopCalls(calls)
        IN /\ (v.type \in {"ellipse", "rect"} /\ Has(v, "linearGradient") /\ Len(v.linearGradient) >= 2)
                => /\ Len(GradientCalls(calls)) = 1
                   /\ GradientCalls(calls)[1].n = GradientSpan(v)
                   /\ Len(stops) = Len(v.linearGradient)
                   /\ \A k \in 1..Len(stops) :
                         /\ stops[k].s = <<v.linearGradient[k]>>
                         /\ OffsetInUnitInterval(stops[k].n)
                         /\ OffsetIs(stops[k].n, k - 1, Len(v.linearGradient) - 1)
                   /\ \E a \in 1..Len(calls) :
                         calls[a].op = "fillColor" /\ calls[a].s = <<<<"#gradient">>>>
           /\ (v.type \in {"line", "polyline", "path"} /\ Has(v, "linearGradient"))
                => Len(GradientCalls(calls)) = 0 /\ Len(stops) = 0

\* a rect with a list of one colour was rendered: its one stop got the offset NaN
C25_SingleStop ==
    \E pk \in CompletedVectors :
        LET v == OriginalItem(pk[1], pk[2])
            stops == StopCalls(CallsOfItem(pk[1], pk[2]))
        IN /\ v.type = "rect" /\ Has(v, "linearGradient") /\ Len(v.linearGradient) = 1
           /\ Len(stops) = 1
           /\ ~IsNumberOffset(stops[1].n)

----------------------------------------------------------------------------
(* C26: one placement per image, in one mode *)

\* the calls of an image without the opacity set before the placement and the
\* annotations made after it
PlacementOps(calls) ==
    OpsOf(SelectSeq(calls, LAMBDA c : c.op \notin (LinkOps \cup {"opacity"})))

HasNonZeroRotation(image) == Has(image, "rotation") /\ image.rotation # 0

HasFlip(image) ==
    \/ Has(image, "xImageFlipH") /\ image.xImageFlipH
    \/ Has(image, "xImageFlipV") /\ image.xImageFlipV

\* the placement calls the claim gives each mode
PlacementOfMode(image) ==
    CASE ImageMode(image) = "extended" ->
           <<"save">> \o (IF HasNonZeroRotation(image) THEN <<"rotate">> ELSE <<>>)
                      \o (IF HasFlip(image) THEN <<"scale">> ELSE <<>>)
                      \o <<"image", "restore">>
      [] ImageMode(image) = "cover" -> <<"save", "rect", "clip", "image", "restore">>
      [] OTHER -> <<"image">>

\* the options that tell the modes' image calls apart
PlacedAsCover(call) == Has(call.o, "cover")

\* C26: every image gets one image call, in extended mode when xImage is set
\* (cover set or not), else in cover mode when cover is set, else in plain
\* mode; extended mode calls save, rotate only for a non-zero rotation, scale
\* only for a flip flag, image, restore; cover mode calls save, rect, clip,
\* image, restore.
C26_OnePlacementOneMode ==
    \A pk \in CompletedImages :
        LET image == OriginalItem(pk[1], pk[2])
            calls == CallsOfItem(pk[1], pk[2])
            placed == SelectSeq(calls, LAMBDA c : c.op = "image")
        IN /\ Len(placed) = 1
           /\ PlacedAsCover(placed[1]) <=> ImageMode(image) = "cover"
           /\ PlacementOps(calls) = PlacementOfMode(image)

\* the same for the images that give their rotation
C26_OnePlacementOneModeRotationGiven ==
    \A pk \in CompletedImages :
        LET image == OriginalItem(pk[1], pk[2])
            calls == CallsOfItem(pk[1], pk[2])
            placed == SelectSeq(calls, LAMBDA c : c.op = "image")
        IN (ImageMode(image) = "extended" => Has(image, "rotation"))
              => /\ Len(placed) = 1
                 /\ PlacedAsCover(placed[1]) <=> ImageMode(image) = "cover"
                 /\ PlacementOps(calls) = PlacementOfMode(image)

\* an extended image without rotation was rendered: it was rotated by 'NaN'
C26_RotatedWithoutRotation ==
    \E pk \in CompletedImages :
        LET image == OriginalItem(pk[1], pk[2])
            calls == CallsOfItem(pk[1], pk[2])
        IN /\ ImageMode(image) = "extended"
           /\ ~Has(image, "rotation")
           /\ \E a \in 1..Len(calls) : calls[a].op = "rotate" /\ calls[a].s = <<<<"NaN">>>>

----------------------------------------------------------------------------
(* C27: resolving a reference again changes nothing *)

\* the reference of inline j is the only one resolved on it: the inline's own
\* and the line's, where both are there, are the same
OneReference(line, j) ==
    /\ CarriesRef(line, j)
    /\ (j = 1 /\ Has(line, "_pageNodeRef") /\ Has(line.inlines[j], "_pageNodeRef"))
          => line._pageNodeRef = line.inlines[j]._pageNodeRef

SameTextWidthX(a, b) == a.text = b.text /\ a.width = b.width /\ a.x = b.x

\* the inline as one resolution of its reference leaves it
ResolvedOnce(line, j) ==
    preparePageNodeRefLine(ResolvedRef(line, j), line.inlines[j]).inline

\* C27: for every inline of a rendered line on which a reference was resolved,
\* preparePageNodeRefLine applied once more with that reference leaves text,
\* width and x as they are; and where the line and its first inline carry the
\* same reference, or the line is rendered again, text, width and x are those
\* of a single resolution, the alignment shift applied once.
C27_ResolutionIdempotent ==
    \A pk \in CompletedLines :
        LET line == OriginalItem(pk[1], pk[2])
            rendered == RenderedItem(pk[1], pk[2])
        IN \A j \in 1..Len(line.inlines) :
              CarriesRef(line, j) =>
                 /\ SameTextWidthX(
                       preparePageNodeRefLine(ResolvedRef(line, j), rendered.inlines[j]).inline,
                       rendered.inlines[j])
                 /\ OneReference(line, j)
                       => SameTextWidthX(rendered.inlines[j], ResolvedOnce(line, j))

\* a line carrying the same reference as its right-aligned first inline has
\* been rendered twice: the inline, narrower than laid out, was moved once
C27_Witness ==
    /\ firstTrace # <<>>
    /\ pc = "done"
    /\ \E pk \in CompletedLines :
          LET line == OriginalItem(pk[1], pk[2])
              rendered == RenderedItem(pk[1], pk[2])
          IN /\ Has(line, "_pageNodeRef") /\ Has(line.inlines[1], "_pageNodeRef")
             /\ line._pageNodeRef = line.inlines[1]._pageNodeRef
             /\ GetOr(line.inlines[1], "alignment", <<>>) = <<"right">>
             /\ rendered.inlines[1].width < line.inlines[1].width
             /\ rendered.inlines[1].x
                   = line.inlines[1].x + (line.inlines[1].width - rendered.inlines[1].width)

====
